---------------------------- MODULE Spec2Model ----------------------------
(***************************************************************************)
(* A model of the notion-mcp server: the markdown/block converter          *)
(* (markdown-converter), the rate-limited NotionClient and the block       *)
(* tools.  Strings are sequences of one-character strings, so that every   *)
(* substring, prefix test, split and regular-expression search of the      *)
(* source is computed character by character.                              *)
(***************************************************************************)
EXTENDS Integers, Sequences, FiniteSets, TLC

VARIABLES
    \* parseInlineFormatting (the inline scanner), one loop iteration per step
    text, remaining, result, scanPc,
    \* markdownToBlocks / blocksToMarkdown / blocksToPlainText calls
    markdown, blocks, rendered, plain, convPc,
    \* NotionClient: the clock, the client's field and the request() calls
    now, lastRequestTime, calls,
    \* a caller's successive conversion calls, with the lastIndex field of
    \* every regular expression object the calls created
    lastIndex, history,
    \* extractNotionId(input), and extractNotionId of what it returned
    input, extracted, again, idPc,
    \* a tool call: its parameters, the requests it has given the client
    \* and what it returned
    params, requests, toolResult, toolPc,
    \* the tool that is called, its local variables between two awaits, and
    \* the responses the client has given it
    tool, locals, responses

scanVars == <<text, remaining, result, scanPc>>
convVars == <<markdown, blocks, rendered, plain, convPc>>
clientVars == <<now, lastRequestTime, calls>>
pureVars == <<lastIndex, history>>
idVars == <<input, extracted, again, idPc>>
toolVars == <<params, requests, toolResult, toolPc, tool, locals, responses>>
vars == <<text, remaining, result, scanPc,
          markdown, blocks, rendered, plain, convPc,
          now, lastRequestTime, calls,
          lastIndex, history,
          input, extracted, again, idPc,
          params, requests, toolResult, toolPc, tool, locals, responses>>

-----------------------------------------------------------------------------
(* Bounds of the model *)

\* longest input string given to parseInlineFormatting
MaxLen == 6
\* most lines in a multi-line markdown document
MaxLines == 4
\* most blocks in a hand-built block sequence given to the renderers
MaxBlocks == 2
\* number of concurrent request() calls on one client
MaxCalls == 3

-----------------------------------------------------------------------------
(* String primitives (JavaScript String methods on character sequences) *)

Min(S) == CHOOSE x \in S : \A y \in S : x <= y

\* s.substring(a, b) with 0-based a, b (a <= b)
Substring(s, a, b) == SubSeq(s, a + 1, IF b > Len(s) THEN Len(s) ELSE b)

\* s.substring(a)
SubstringFrom(s, a) == SubSeq(s, a + 1, Len(s))

\* s.startsWith(p)
StartsWith(s, p) == Len(s) >= Len(p) /\ SubSeq(s, 1, Len(p)) = p

\* p occurs in s at 0-based index i
OccursAt(s, p, i) == i + Len(p) <= Len(s) /\ SubSeq(s, i + 1, i + Len(p)) = p

\* the grave accent U+0060 (a TLA+ string cannot hold that character)
Tick == "tick"

\* the characters String.prototype.trim removes and \s matches: the white
\* space and line terminator code points of ECMAScript with the Unicode
\* space separators (a code point without a TLA+ escape is written U+xxxx
\* and stands for one character)
WhiteSpace ==
    {" ", "\t", "\n", "\r", "\f", "U+000B", "U+00A0", "U+FEFF", "U+2028", "U+2029",
     "U+1680", "U+2000", "U+2001", "U+2002", "U+2003", "U+2004", "U+2005",
     "U+2006", "U+2007", "U+2008", "U+2009", "U+200A", "U+202F", "U+205F",
     "U+3000"}

\* the characters the regular expression dot does not match
LineTerminators == {"\n", "\r", "U+2028", "U+2029"}

\* the characters \d matches
Digits == {"0", "1", "2", "3", "4", "5", "6", "7", "8", "9"}

\* s.trim()
Trim(s) ==
    LET keep == {i \in 1..Len(s) : s[i] \notin WhiteSpace}
    IN  IF keep = {} THEN <<>>
        ELSE SubSeq(s, Min(keep), CHOOSE i \in keep : \A j \in keep : j <= i)

RECURSIVE Join(_, _)
\* parts.join(sep)
Join(parts, sep) ==
    IF parts = <<>> THEN <<>>
    ELSE IF Len(parts) = 1 THEN parts[1]
    ELSE parts[1] \o sep \o Join(Tail(parts), sep)

RECURSIVE Split(_, _)
\* s.split(c) for a one-character separator: always at least one piece
Split(s, c) ==
    LET at == {i \in 1..Len(s) : s[i] = c}
    IN  IF at = {} THEN <<s>>
        ELSE <<SubSeq(s, 1, Min(at) - 1)>> \o Split(SubSeq(s, Min(at) + 1, Len(s)), c)

-----------------------------------------------------------------------------
(* parseInlineFormatting: the five patterns *)

NoMatch == [found |-> FALSE, index |-> 0, length |-> 0, content |-> <<>>,
            annotation |-> "none", url |-> <<>>]

\* every character of s[from+1 .. to] is matched by the regular expression dot
DotRun(s, from, to) == \A i \in (from + 1)..to : s[i] \notin LineTerminators

\* regex.exec(s) for /D(.+?)D/ with delimiter d: leftmost start, then the
\* shortest non-empty dot-run that is followed by the delimiter
DelimExec(s, d, annotation) ==
    LET n == Len(d)
        Closers(i) == {j \in (i + n + 1)..(Len(s) - n) :
                          OccursAt(s, d, j) /\ DotRun(s, i + n, j)}
        starts == {i \in 0..(Len(s) - n) : OccursAt(s, d, i) /\ Closers(i) # {}}
    IN  IF starts = {} THEN NoMatch
        ELSE LET i == Min(starts)
                 j == Min(Closers(i))
             IN  [found |-> TRUE, index |-> i, length |-> j + n - i,
                  content |-> Substring(s, i + n, j),
                  annotation |-> annotation, url |-> <<>>]

\* regex.exec(s) for /\[([^\]]+)\]\(([^)]+)\)/
LinkExec(s) ==
    LET FirstAfter(c, from) ==
            LET at == {k \in from..(Len(s) - 1) : s[k + 1] = c}
            IN  IF at = {} THEN -1 ELSE Min(at)
        \* 0-based index of the ']' closing a '[' at i, and of the final ')'
        Close(i) == FirstAfter("]", i + 1)
        End(i) == FirstAfter(")", Close(i) + 2)
        Ok(i) == /\ s[i + 1] = "["
                 /\ Close(i) >= i + 2
                 /\ OccursAt(s, <<"(">>, Close(i) + 1)
                 /\ End(i) >= Close(i) + 3
        starts == {i \in 0..(Len(s) - 1) : Ok(i)}
    IN  IF starts = {} THEN NoMatch
        ELSE LET i == Min(starts)
             IN  [found |-> TRUE, index |-> i, length |-> End(i) + 1 - i,
                  content |-> Substring(s, i + 1, Close(i)),
                  annotation |-> "link",
                  url |-> Substring(s, Close(i) + 2, End(i))]

BoldExec(s) == DelimExec(s, <<"*", "*">>, "bold")
ItalicExec(s) == DelimExec(s, <<"*">>, "italic")
StrikeExec(s) == DelimExec(s, <<"~", "~">>, "strikethrough")
CodeExec(s) == DelimExec(s, <<Tick>>, "code")

\* the patterns array, in its order
Patterns(s) == <<BoldExec(s), ItalicExec(s), StrikeExec(s), CodeExec(s), LinkExec(s)>>

RECURSIVE PickEarliestOrLater(_, _, _)
\* PickEarliest with a later pattern also replacing a match that starts at
\* the same index
PickEarliestOrLater(ms, k, best) ==
    IF k > Len(ms) THEN best
    ELSE IF ms[k].found /\ (~best.found \/ ms[k].index <= best.index)
         THEN PickEarliestOrLater(ms, k + 1, ms[k])
         ELSE PickEarliestOrLater(ms, k + 1, best)

RECURSIVE PickEarliest(_, _, _)
\* the for loop over patterns: a later pattern replaces the current choice
\* only when its match starts strictly earlier
PickEarliest(ms, k, best) ==
    IF k > Len(ms) THEN best
    ELSE IF ms[k].found /\ (~best.found \/ ms[k].index < best.index)
         THEN PickEarliest(ms, k + 1, ms[k])
         ELSE PickEarliest(ms, k + 1, best)

EarliestMatch(s) == PickEarliest(Patterns(s), 1, NoMatch)

\* a plain run { type: 'text', text: { content } }
PlainRun(c) == [content |-> c, annotations |-> {}, link |-> <<>>]

\* MatchRun with the pattern's name set as an annotation for a link too
MatchRunAnnotatedLink(m) ==
    [content |-> m.content, annotations |-> {m.annotation}, link |-> m.url]

\* the run built from a match: one annotation, or a link and no annotation
MatchRun(m) ==
    [content |-> m.content,
     annotations |-> IF m.annotation # "link" THEN {m.annotation} ELSE {},
     link |-> m.url]

\* ScanIter without the push of the text before the match
ScanIterNoPrefix(rem, res) ==
    LET m == EarliestMatch(rem)
    IN  IF m.found
        THEN [remaining |-> SubstringFrom(rem, m.index + m.length),
              result |-> Append(res, MatchRun(m)),
              brk |-> FALSE]
        ELSE [remaining |-> rem,
              result |-> IF Len(rem) > 0 THEN Append(res, PlainRun(rem)) ELSE res,
              brk |-> TRUE]

\* ScanStep resuming one character after the start of the match
ScanStepInsideMatch(rem, res, m) ==
    IF m.found
    THEN [remaining |-> SubstringFrom(rem, m.index + 1),
          result |-> (IF m.index > 0
                      THEN Append(res, PlainRun(Substring(rem, 0, m.index)))
                      ELSE res) \o <<MatchRun(m)>>,
          brk |-> FALSE]
    ELSE [remaining |-> rem,
          result |-> IF Len(rem) > 0 THEN Append(res, PlainRun(rem)) ELSE res,
          brk |-> TRUE]

\* the rest of an iteration, once earliestMatch is m
ScanStep(rem, res, m) ==
    IF m.found
    THEN [remaining |-> SubstringFrom(rem, m.index + m.length),
          result |-> (IF m.index > 0
                      THEN Append(res, PlainRun(Substring(rem, 0, m.index)))
                      ELSE res) \o <<MatchRun(m)>>,
          brk |-> FALSE]
    ELSE [remaining |-> rem,
          result |-> IF Len(rem) > 0 THEN Append(res, PlainRun(rem)) ELSE res,
          brk |-> TRUE]

\* one iteration of the while loop on (remaining, result)
ScanIter(rem, res) == ScanStep(rem, res, EarliestMatch(rem))

RECURSIVE ScanLoop(_, _)
ScanLoop(rem, res) ==
    IF Len(rem) = 0 THEN res
    ELSE LET it == ScanIter(rem, res)
         IN  IF it.brk THEN it.result ELSE ScanLoop(it.remaining, it.result)

\* ScanReturn without the fallback run
ScanReturnNoFallback(t, res) == res

\* the return statement: the fallback run for an empty result
ScanReturn(t, res) == IF Len(res) > 0 THEN res ELSE <<PlainRun(t)>>

parseInlineFormatting(t) == ScanReturn(t, ScanLoop(t, <<>>))

-----------------------------------------------------------------------------
(* parseInlineFormatting with the state of its regular expressions.  The
   five patterns carry the g flag, so exec searches from the pattern's
   lastIndex and stores there the end of the match, or 0 without a match.
   The store holds the lastIndex of every regular expression object created
   so far, in creation order; an object is named by its place in it. *)

\* const patterns = [...]: five new expressions, each with lastIndex 0
NewPatterns == <<0, 0, 0, 0, 0>>

\* regex.lastIndex = 0 before exec (reset), or lastIndex left as it is
ExecStart(li, reset) == IF reset THEN 0 ELSE li

\* the k-th pattern's exec on s, searching from index from
ExecAt(k, s, from) ==
    IF from > Len(s) THEN NoMatch
    ELSE LET m == Patterns(SubstringFrom(s, from))[k]
         IN  IF m.found THEN [m EXCEPT !.index = @ + from] ELSE NoMatch

\* the pattern's lastIndex after exec returned m
LastIndexAfter(m) == IF m.found THEN m.index + m.length ELSE 0

\* the matches the for loop over patterns reads: the k-th pattern of the
\* call is the object at + k of the store
ExecAll(rem, stored, at, reset) ==
    [k \in 1..5 |-> ExecAt(k, rem, ExecStart(stored[at + k], reset))]

\* the store after the five exec calls of one pass returned ms
StoreAfter(stored, at, ms) ==
    [stored EXCEPT ![at + 1] = LastIndexAfter(ms[1]),
                   ![at + 2] = LastIndexAfter(ms[2]),
                   ![at + 3] = LastIndexAfter(ms[3]),
                   ![at + 4] = LastIndexAfter(ms[4]),
                   ![at + 5] = LastIndexAfter(ms[5])]

RECURSIVE ScanLoopOn(_, _, _, _, _)
\* the while loop on the store: the result, and the store with the lastIndex
\* the exec calls left in the patterns of the call
ScanLoopOn(rem, res, stored, at, reset) ==
    IF Len(rem) = 0 THEN [result |-> res, lastIndex |-> stored]
    ELSE LET ms == ExecAll(rem, stored, at, reset)
             it == ScanStep(rem, res, PickEarliest(ms, 1, NoMatch))
             after == StoreAfter(stored, at, ms)
         IN  IF it.brk THEN [result |-> it.result, lastIndex |-> after]
             ELSE ScanLoopOn(it.remaining, it.result, after, at, reset)

\* parseInlineFormatting with patterns declared outside the function (the
\* first five objects of the store, created when the module loads) and
\* never reset: each exec goes on from where the pattern's last one ended
parseInlineFormattingShared(t, stored) ==
    LET r == ScanLoopOn(t, <<>>,
                        IF Len(stored) < 5 THEN NewPatterns \o stored ELSE stored, 0, FALSE)
    IN  [result |-> ScanReturn(t, r.result), lastIndex |-> r.lastIndex, argument |-> t]

\* a call of parseInlineFormatting(t) on the store: the patterns literal
\* creates five objects after those there are, the loop resets, reads and
\* writes their lastIndex.  What the call returns, the store when it
\* returns, and its argument then (a string: no statement can change it)
parseInlineFormattingOn(t, stored) ==
    LET r == ScanLoopOn(t, <<>>, stored \o NewPatterns, Len(stored), TRUE)
    IN  [result |-> ScanReturn(t, r.result), lastIndex |-> r.lastIndex, argument |-> t]

-----------------------------------------------------------------------------
(* Blocks *)

\* the rich_text field of a payload: an array of runs, absent, or a truthy
\* value that is not an array
RichText(runs) == [kind |-> "array", runs |-> runs]
RichTextAbsent == [kind |-> "undefined", runs |-> <<>>]
RichTextNotArray == [kind |-> "string", runs |-> <<>>]

\* the value of b[b.type]: an object with rich_text, checked and language
Payload(rich, checked, language) ==
    [kind |-> "object", rich_text |-> rich, checked |-> checked, language |-> language]
PayloadAbsent ==
    [kind |-> "undefined", rich_text |-> RichTextAbsent, checked |-> FALSE, language |-> <<>>]
PayloadNull ==
    [kind |-> "null", rich_text |-> RichTextAbsent, checked |-> FALSE, language |-> <<>>]

\* { object: 'block', type, [type]: payload }
Block(type, payload) == [type |-> type, payload |-> payload]

\* lineToBlock's null
NullBlock == Block("null", PayloadNull)

\* TextBlock with the payload stored under a key other than the type
TextBlockOtherKey(type, content) == Block(type, PayloadAbsent)

\* { object: 'block', type, [type]: { rich_text: parseInlineFormatting(content) } }
TextBlock(type, content) ==
    Block(type, Payload(RichText(parseInlineFormatting(content)), FALSE, <<>>))

-----------------------------------------------------------------------------
(* lineToBlock *)

\* NumberedMatch with a single \d in place of \d+
NumberedMatchOneDigit(trimmed) ==
    LET nonSpace == {i \in 3..Len(trimmed) : trimmed[i] \notin WhiteSpace}
        start == IF nonSpace = {} THEN 0 ELSE Min(nonSpace)
    IN  IF /\ Len(trimmed) >= 2 /\ trimmed[1] \in Digits /\ trimmed[2] = "."
           /\ start >= 4
           /\ \A i \in start..Len(trimmed) : trimmed[i] \notin LineTerminators
        THEN SubSeq(trimmed, start, Len(trimmed))
        ELSE <<>>

\* trimmed.match(/^(\d+)\.\s+(.+)$/) on a trimmed line: the captured content,
\* or the empty string when the pattern does not match
NumberedMatch(trimmed) ==
    LET nonDigit == {i \in 1..Len(trimmed) : trimmed[i] \notin Digits}
        dot == IF nonDigit = {} THEN 0 ELSE Min(nonDigit)
        nonSpace == {i \in (dot + 1)..Len(trimmed) : trimmed[i] \notin WhiteSpace}
        start == IF nonSpace = {} THEN 0 ELSE Min(nonSpace)
    IN  IF /\ dot >= 2 /\ trimmed[dot] = "."
           /\ start >= dot + 2
           /\ DotRun(trimmed, start - 1, Len(trimmed))
        THEN SubSeq(trimmed, start, Len(trimmed))
        ELSE <<>>

TodoOpen == <<"-", " ", "[", " ", "]", " ">>
TodoDone == <<"-", " ", "[", "x", "]", " ">>

\* the conditions of lineToBlock's if statements, in source order
\* IsHeading1 testing the '#' alone
IsHeading1Naive(trimmed) == Len(trimmed) >= 1 /\ trimmed[1] = "#"
IsHeading1(trimmed) == StartsWith(trimmed, <<"#", " ">>)
IsHeading2(trimmed) == StartsWith(trimmed, <<"#", "#", " ">>)
IsHeading3(trimmed) == StartsWith(trimmed, <<"#", "#", "#", " ">>)
\* IsTodo without the checked marker
IsTodoOpenOnly(trimmed) == Len(trimmed) >= 6 /\ SubSeq(trimmed, 1, 6) = TodoOpen
IsTodo(trimmed) == StartsWith(trimmed, TodoOpen) \/ StartsWith(trimmed, TodoDone)
IsBullet(trimmed) == StartsWith(trimmed, <<"-", " ">>) \/ StartsWith(trimmed, <<"*", " ">>)
IsNumbered(trimmed) == NumberedMatch(trimmed) # <<>>
\* IsQuote testing the '>' alone
IsQuoteNoSpace(trimmed) == Len(trimmed) >= 1 /\ trimmed[1] = ">"
IsQuote(trimmed) == StartsWith(trimmed, <<">", " ">>)
\* IsRule accepting the dashes alone
IsRuleDashOnly(trimmed) == trimmed = <<"-", "-", "-">>
IsRule(trimmed) == trimmed \in {<<"-", "-", "-">>, <<"*", "*", "*">>, <<"_", "_", "_">>}

lineToBlock(line) ==
    LET trimmed == Trim(line)
    IN  IF trimmed = <<>> THEN NullBlock
        ELSE IF IsHeading1(trimmed)
            THEN TextBlock("heading_1", SubstringFrom(trimmed, 2))
        ELSE IF IsHeading2(trimmed)
            THEN TextBlock("heading_2", SubstringFrom(trimmed, 3))
        ELSE IF IsHeading3(trimmed)
            THEN TextBlock("heading_3", SubstringFrom(trimmed, 4))
        ELSE IF IsTodo(trimmed)
            THEN Block("to_do",
                       Payload(RichText(parseInlineFormatting(SubstringFrom(trimmed, 6))),
                               StartsWith(trimmed, TodoDone), <<>>))
        ELSE IF IsBullet(trimmed)
            THEN TextBlock("bulleted_list_item", SubstringFrom(trimmed, 2))
        ELSE IF IsNumbered(trimmed)
            THEN TextBlock("numbered_list_item", NumberedMatch(trimmed))
        ELSE IF IsQuote(trimmed)
            THEN TextBlock("quote", SubstringFrom(trimmed, 2))
        ELSE IF IsRule(trimmed)
            THEN Block("divider", Payload(RichTextAbsent, FALSE, <<>>))
        ELSE TextBlock("paragraph", trimmed)

-----------------------------------------------------------------------------
(* parseCodeBlocks *)

Fence == <<Tick, Tick, Tick>>
PlainTextLanguage == <<"p", "l", "a", "i", "n", " ", "t", "e", "x", "t">>
NewLine == <<"\n">>

\* the locals of parseCodeBlocks before the loop
FenceStart ==
    [parts |-> <<>>, inCodeBlock |-> FALSE, codeContent |-> <<>>,
     codeLanguage |-> <<>>, textContent |-> <<>>]

CodePart(st) ==
    [content |-> Join(st.codeContent, NewLine), isCode |-> TRUE,
     language |-> IF st.codeLanguage # <<>> THEN st.codeLanguage ELSE PlainTextLanguage]

TextPart(st) ==
    [content |-> Join(st.textContent, NewLine), isCode |-> FALSE, language |-> <<>>]

\* FenceStep leaving out the blank lines of the text between fences
FenceStepSkipBlank(st, line) ==
    IF StartsWith(line, Fence)
    THEN IF st.inCodeBlock
         THEN [st EXCEPT !.parts = Append(@, CodePart(st)),
                         !.codeContent = <<>>,
                         !.codeLanguage = <<>>,
                         !.inCodeBlock = FALSE]
         ELSE [st EXCEPT !.parts = IF Len(st.textContent) > 0
                                   THEN Append(@, TextPart(st)) ELSE @,
                         !.textContent = <<>>,
                         !.codeLanguage = Trim(SubstringFrom(line, 3)),
                         !.inCodeBlock = TRUE]
    ELSE IF st.inCodeBlock
         THEN [st EXCEPT !.codeContent = Append(@, line)]
         ELSE IF line = <<>> THEN st
         ELSE [st EXCEPT !.textContent = Append(@, line)]

\* the body of the for loop, for one line
FenceStep(st, line) ==
    IF StartsWith(line, Fence)
    THEN IF st.inCodeBlock
         THEN [st EXCEPT !.parts = Append(@, CodePart(st)),
                         !.codeContent = <<>>,
                         !.codeLanguage = <<>>,
                         !.inCodeBlock = FALSE]
         ELSE [st EXCEPT !.parts = IF Len(st.textContent) > 0
                                   THEN Append(@, TextPart(st)) ELSE @,
                         !.textContent = <<>>,
                         !.codeLanguage = Trim(SubstringFrom(line, 3)),
                         !.inCodeBlock = TRUE]
    ELSE IF st.inCodeBlock
         THEN [st EXCEPT !.codeContent = Append(@, line)]
         ELSE [st EXCEPT !.textContent = Append(@, line)]

\* FenceFlush without the flush of the code accumulator
FenceFlushTextOnly(st) ==
    IF Len(st.textContent) > 0 THEN Append(st.parts, TextPart(st)) ELSE st.parts

\* "Handle remaining content": the parts returned
FenceFlush(st) ==
    LET afterText == IF Len(st.textContent) > 0
                     THEN Append(st.parts, TextPart(st)) ELSE st.parts
    IN  IF Len(st.codeContent) > 0 THEN Append(afterText, CodePart(st)) ELSE afterText

RECURSIVE FenceLoop(_, _)
FenceLoop(st, lines) ==
    IF lines = <<>> THEN st ELSE FenceLoop(FenceStep(st, Head(lines)), Tail(lines))

parseCodeBlocks(md) == FenceFlush(FenceLoop(FenceStart, Split(md, "\n")))

-----------------------------------------------------------------------------
(* markdownToBlocks *)

\* a block was returned for the line
IsBlock(b) == b # NullBlock

\* LinesToBlocks pushing what lineToBlock returns for a blank line too
LinesToBlocksKeepBlank(lines) == [i \in 1..Len(lines) |-> lineToBlock(lines[i])]

\* the inner loop: one block for each line lineToBlock does not drop
LinesToBlocks(lines) ==
    SelectSeq([i \in 1..Len(lines) |-> lineToBlock(lines[i])], IsBlock)

\* PartToBlocks with the body of a code part scanned for inline markup
PartToBlocksScanned(part) ==
    IF part.isCode
    THEN <<Block("code",
                 Payload(RichText(parseInlineFormatting(part.content)), FALSE,
                         IF part.language # <<>> THEN part.language
                         ELSE PlainTextLanguage))>>
    ELSE LinesToBlocks(Split(part.content, "\n"))

\* the blocks pushed for one part
PartToBlocks(part) ==
    IF part.isCode
    THEN <<Block("code",
                 Payload(RichText(<<PlainRun(part.content)>>), FALSE,
                         IF part.language # <<>> THEN part.language
                         ELSE PlainTextLanguage))>>
    ELSE LinesToBlocks(Split(part.content, "\n"))

RECURSIVE Flatten(_)
\* blocks.push applied over a sequence of pushes
Flatten(seqs) == IF seqs = <<>> THEN <<>> ELSE Head(seqs) \o Flatten(Tail(seqs))

\* the loop over parts
PartsToBlocks(parts) == Flatten([i \in 1..Len(parts) |-> PartToBlocks(parts[i])])

markdownToBlocks(md) == PartsToBlocks(parseCodeBlocks(md))

-----------------------------------------------------------------------------
(* blocksToMarkdown, richTextToMarkdown, blocksToPlainText *)

\* the markdown of one run: code, bold, italic, strikethrough, then the link
\* RunToMarkdown with the link wrapped first and the emphasis around it
RunToMarkdownLinkInside(rt) ==
    LET t0 == IF rt.link # <<>>
              THEN <<"[">> \o rt.content \o <<"]", "(">> \o rt.link \o <<")">>
              ELSE rt.content
        t1 == IF "code" \in rt.annotations THEN <<Tick>> \o t0 \o <<Tick>> ELSE t0
        t2 == IF "bold" \in rt.annotations
              THEN <<"*", "*">> \o t1 \o <<"*", "*">> ELSE t1
        t3 == IF "italic" \in rt.annotations THEN <<"*">> \o t2 \o <<"*">> ELSE t2
    IN  IF "strikethrough" \in rt.annotations
        THEN <<"~", "~">> \o t3 \o <<"~", "~">> ELSE t3

RunToMarkdown(rt) ==
    LET t0 == rt.content
        t1 == IF "code" \in rt.annotations THEN <<Tick>> \o t0 \o <<Tick>> ELSE t0
        t2 == IF "bold" \in rt.annotations
              THEN <<"*", "*">> \o t1 \o <<"*", "*">> ELSE t1
        t3 == IF "italic" \in rt.annotations THEN <<"*">> \o t2 \o <<"*">> ELSE t2
        t4 == IF "strikethrough" \in rt.annotations
              THEN <<"~", "~">> \o t3 \o <<"~", "~">> ELSE t3
    IN  IF rt.link # <<>>
        THEN <<"[">> \o t4 \o <<"]", "(">> \o rt.link \o <<")">>
        ELSE t4

RECURSIVE RunsToMarkdown(_)
RunsToMarkdown(runs) ==
    IF runs = <<>> THEN <<>>
    ELSE RunToMarkdown(Head(runs)) \o RunsToMarkdown(Tail(runs))

\* richTextToMarkdown: '' for a value that is absent or not an array
richTextToMarkdown(rich) ==
    IF rich.kind # "array" THEN <<>> ELSE RunsToMarkdown(rich.runs)

\* the block types whose case reads a property of b[type] without a guard
GuardlessTypes ==
    {"paragraph", "heading_1", "heading_2", "heading_3", "bulleted_list_item",
     "numbered_list_item", "to_do", "quote", "code"}

\* reading a property of undefined or null raises a TypeError
RaisesOnRead(payload) == payload.kind \in {"undefined", "null"}

\* BlockPrefix with the bullet written '* '
BlockPrefixStar(b) ==
    CASE b.type = "paragraph" -> <<>>
      [] b.type = "heading_1" -> <<"#", " ">>
      [] b.type = "heading_2" -> <<"#", "#", " ">>
      [] b.type = "heading_3" -> <<"#", "#", "#", " ">>
      [] b.type = "bulleted_list_item" -> <<"*", " ">>
      [] b.type = "numbered_list_item" -> <<"1", ".", " ">>
      [] b.type = "to_do" ->
            <<"-", " ", "[", IF b.payload.checked THEN "x" ELSE " ", "]", " ">>
      [] b.type = "quote" -> <<">", " ">>
      [] OTHER -> <<>>

\* the markdown a block's line starts with
BlockPrefix(b) ==
    CASE b.type = "paragraph" -> <<>>
      [] b.type = "heading_1" -> <<"#", " ">>
      [] b.type = "heading_2" -> <<"#", "#", " ">>
      [] b.type = "heading_3" -> <<"#", "#", "#", " ">>
      [] b.type = "bulleted_list_item" -> <<"-", " ">>
      [] b.type = "numbered_list_item" -> <<"1", ".", " ">>
      [] b.type = "to_do" ->
            <<"-", " ", "[", IF b.payload.checked THEN "x" ELSE " ", "]", " ">>
      [] b.type = "quote" -> <<">", " ">>
      [] OTHER -> <<>>

\* the strings one block pushes onto lines
BlockLines(b) ==
    IF b.type = "code"
    THEN <<Fence \o b.payload.language,
           richTextToMarkdown(b.payload.rich_text),
           Fence>>
    ELSE IF b.type = "divider" THEN << <<"-", "-", "-">> >>
    ELSE IF b.type \in GuardlessTypes
    THEN << BlockPrefix(b) \o richTextToMarkdown(b.payload.rich_text) >>
    ELSE IF b.payload.kind = "object" /\ b.payload.rich_text.kind # "undefined"
    THEN << richTextToMarkdown(b.payload.rich_text) >>
    ELSE <<>>

RECURSIVE AllBlockLines(_)
AllBlockLines(bs) ==
    IF bs = <<>> THEN <<>> ELSE BlockLines(Head(bs)) \o AllBlockLines(Tail(bs))

\* the outcome of a call: the string returned, or the TypeError raised
Returned(v) == [threw |-> FALSE, value |-> v]
Raised == [threw |-> TRUE, value |-> <<>>]

\* blocksToMarkdown joining the lines with one newline
blocksToMarkdownOneNewline(bs) ==
    IF \E i \in 1..Len(bs) : bs[i].type \in GuardlessTypes /\ RaisesOnRead(bs[i].payload)
    THEN Raised
    ELSE Returned(Join(AllBlockLines(bs), NewLine))

blocksToMarkdown(bs) ==
    IF \E i \in 1..Len(bs) : bs[i].type \in GuardlessTypes /\ RaisesOnRead(bs[i].payload)
    THEN Raised
    ELSE Returned(Join(AllBlockLines(bs), <<"\n", "\n">>))

\* RunsToText reading the first run alone
RunsToTextFirstRun(runs) == IF runs = <<>> THEN <<>> ELSE Head(runs).content

\* richText.map(rt => rt.text?.content || '').join('')
RECURSIVE RunsToText(_)
RunsToText(runs) ==
    IF runs = <<>> THEN <<>> ELSE Head(runs).content \o RunsToText(Tail(runs))

\* BlockText without the test of the text: an empty text is pushed too
BlockTextKeepEmpty(b) ==
    IF b.payload.kind = "object" /\ b.payload.rich_text.kind = "array"
    THEN << RunsToText(b.payload.rich_text.runs) >>
    ELSE <<>>

\* the lines one block pushes in blocksToPlainText
BlockText(b) ==
    IF b.payload.kind = "object" /\ b.payload.rich_text.kind = "array"
       /\ RunsToText(b.payload.rich_text.runs) # <<>>
    THEN << RunsToText(b.payload.rich_text.runs) >>
    ELSE <<>>

RECURSIVE AllBlockText(_)
AllBlockText(bs) ==
    IF bs = <<>> THEN <<>> ELSE BlockText(Head(bs)) \o AllBlockText(Tail(bs))

blocksToPlainText(bs) ==
    IF \E i \in 1..Len(bs) :
          bs[i].payload.kind = "object" /\ bs[i].payload.rich_text.kind = "string"
    THEN Raised
    ELSE Returned(Join(AllBlockText(bs), NewLine))

-----------------------------------------------------------------------------
(* The inline scanner as a state machine: one action per loop iteration *)

\* the characters of the strings given to parseInlineFormatting: the emphasis
\* delimiters with a line terminator, and the link punctuation with '*'
EmphasisAlphabet == {"a", "*", "~", Tick, "\n"}
LinkAlphabet == {"a", "*", "[", "]", "(", ")"}

\* every string over alphabet A of length at most n
StringsUpTo(A, n) == UNION {[1..k -> A] : k \in 0..n}

ScanIdle == text = <<>> /\ remaining = <<>> /\ result = <<>> /\ scanPc = "idle"
ConvIdle == /\ markdown = <<>> /\ blocks = <<>> /\ rendered = Returned(<<>>)
            /\ plain = Returned(<<>>) /\ convPc = "idle"
ClientIdle == now = 0 /\ lastRequestTime = 0 /\ calls = <<>>
PureIdle == lastIndex = <<>> /\ history = <<>>
IdIdle == input = <<>> /\ extracted = <<>> /\ again = <<>> /\ idPc = "idle"
ToolIdle == /\ params = [parent_id |-> <<>>, content |-> <<>>]
            /\ requests = <<>>
            /\ toolResult = [success |-> FALSE, error |-> "", blocks |-> <<>>, block_count |-> 0]
            /\ toolPc = "idle"
            /\ tool = "none"
            /\ locals = [allBlocks |-> <<>>, cursor |-> <<>>, hasMore |-> TRUE, blockType |-> ""]
            /\ responses = <<>>
OthersIdle == PureIdle /\ IdIdle /\ ToolIdle
otherVars == <<pureVars, idVars, toolVars>>

\* entry of parseInlineFormatting(text): result = [], remaining = text
InitScan ==
    /\ text \in StringsUpTo(EmphasisAlphabet, MaxLen) \cup StringsUpTo(LinkAlphabet, MaxLen)
    /\ remaining = text
    /\ result = <<>>
    /\ scanPc = "loop"
    /\ ConvIdle /\ ClientIdle /\ OthersIdle

\* a loop iteration that finds a match: emit the text before it and the run
ScanMatch ==
    /\ scanPc = "loop" /\ Len(remaining) > 0
    /\ EarliestMatch(remaining).found
    /\ remaining' = ScanIter(remaining, result).remaining
    /\ result' = ScanIter(remaining, result).result
    /\ UNCHANGED <<text, scanPc>>
    /\ UNCHANGED <<convVars, clientVars, otherVars>>

\* a loop iteration that finds no match: emit the remainder and break
ScanBreak ==
    /\ scanPc = "loop" /\ Len(remaining) > 0
    /\ ~EarliestMatch(remaining).found
    /\ result' = ScanIter(remaining, result).result
    /\ scanPc' = "return"
    /\ UNCHANGED <<text, remaining>>
    /\ UNCHANGED <<convVars, clientVars, otherVars>>

\* the loop condition fails: remaining is empty
ScanExit ==
    /\ scanPc = "loop" /\ Len(remaining) = 0
    /\ scanPc' = "return"
    /\ UNCHANGED <<text, remaining, result>>
    /\ UNCHANGED <<convVars, clientVars, otherVars>>

\* the return statement
ScanDone ==
    /\ scanPc = "return"
    /\ result' = ScanReturn(text, result)
    /\ scanPc' = "done"
    /\ UNCHANGED <<text, remaining>>
    /\ UNCHANGED <<convVars, clientVars, otherVars>>

NextScan == ScanMatch \/ ScanBreak \/ ScanExit \/ ScanDone

SpecScan == InitScan /\ [][NextScan]_vars

\* the inputs of the termination check: they hold the shortest construct
ShortAlphabet == {"*", "a"}

InitScanFair ==
    /\ text \in StringsUpTo(ShortAlphabet, MaxLen)
    /\ remaining = text
    /\ result = <<>>
    /\ scanPc = "loop"
    /\ ConvIdle /\ ClientIdle /\ OthersIdle

\* the scanner is one synchronous call: a step that can be taken is taken
SpecScanFair == InitScanFair /\ [][NextScan]_vars /\ WF_vars(NextScan)

-----------------------------------------------------------------------------
(* The converter calls as a state machine: one action per exported function *)

\* what a line of a one-line document starts with
LineMarkers ==
    {<<>>,
     <<"#", " ">>,
     <<"#", "#", " ">>,
     <<"#", "#", "#", " ">>,
     <<"#", "#", "#", "#", " ">>,
     <<"#">>,
     <<"-", " ", "[", " ", "]", " ">>,
     <<"-", " ", "[", "x", "]", " ">>,
     <<"-", " ", "[", "X", "]", " ">>,
     <<"-", " ">>,
     <<"*", " ">>,
     <<"-">>,
     <<"1", ".", " ">>,
     <<"1", "2", ".", " ">>,
     <<"7", ".", " ", " ">>,
     <<"1", ".", "\f">>,
     <<"1", ".">>,
     <<">", " ">>,
     <<">">>,
     <<"-", "-", "-">>,
     <<"*", "*", "*">>,
     <<"_", "_", "_">>,
     <<Tick, Tick, Tick>>}

\* what follows the marker: text with at most one inline construct
LineContents ==
    {<<>>,
     <<"a">>,
     <<" ", "a">>,
     <<"*", "*", "a", "*", "*">>,
     <<"*", "a", "*">>,
     <<"~", "~", "a", "~", "~">>,
     <<Tick, "a", Tick>>,
     <<"[", "a", "]", "(", "b", ")">>,
     <<"a", "U+2028", "b">>}

\* the lines of the multi-line documents
DocLines ==
    {<<>>,
     <<"a">>,
     <<"*", "a", "*">>,
     <<"-", " ", "a">>,
     <<"2", ".", " ", "a">>,
     <<Tick, Tick, Tick>>,
     <<Tick, Tick, Tick, "j", "s">>,
     <<Tick, Tick, Tick, "U+00A0", "j", "s", " ">>}

Indents == {<<>>, <<" ">>, <<"\f">>}

\* the one-line documents: indent, marker, content, trailing blank
OneLineDocs ==
    {i \o m \o c \o t : i \in Indents, m \in LineMarkers, c \in LineContents, t \in Indents}

\* the documents of 2..MaxLines lines over DocLines
MultiLineDocs ==
    {Join(ls, NewLine) : ls \in UNION {[1..k -> DocLines] : k \in 2..MaxLines}}

NotCalled == Returned(<<>>)

\* a caller holds a markdown string
InitConv ==
    /\ markdown \in OneLineDocs \cup MultiLineDocs
    /\ blocks = <<>>
    /\ rendered = NotCalled
    /\ plain = NotCalled
    /\ convPc = "markdown"
    /\ ScanIdle /\ ClientIdle /\ OthersIdle

\* blocks = markdownToBlocks(markdown)
MarkdownToBlocks ==
    /\ convPc = "markdown"
    /\ blocks' = markdownToBlocks(markdown)
    /\ convPc' = "blocks"
    /\ UNCHANGED <<markdown, rendered, plain>>
    /\ UNCHANGED <<scanVars, clientVars, otherVars>>

\* rendered = blocksToMarkdown(blocks)
BlocksToMarkdown ==
    /\ convPc = "blocks"
    /\ rendered' = blocksToMarkdown(blocks)
    /\ convPc' = "rendered"
    /\ UNCHANGED <<markdown, blocks, plain>>
    /\ UNCHANGED <<scanVars, clientVars, otherVars>>

\* plain = blocksToPlainText(blocks)
BlocksToPlainText ==
    /\ convPc = "blocks"
    /\ plain' = blocksToPlainText(blocks)
    /\ convPc' = "extracted"
    /\ UNCHANGED <<markdown, blocks, rendered>>
    /\ UNCHANGED <<scanVars, clientVars, otherVars>>

NextConv == MarkdownToBlocks \/ BlocksToMarkdown \/ BlocksToPlainText

SpecConv == InitConv /\ [][NextConv]_vars

-----------------------------------------------------------------------------
(* The renderers called on block-like records supplied by a caller *)

\* a run with every annotation and a link, as a caller may build it
FullRun ==
    [content |-> <<"a">>,
     annotations |-> {"bold", "italic", "strikethrough", "code"},
     link |-> <<"u">>]

RunSeqs == {<<>>, <<PlainRun(<<"a">>)>>, <<FullRun, PlainRun(<<"b">>)>>}

\* the shapes of b[type]: absent, null, without rich_text, with a rich_text
\* that is no array, and well-formed
PayloadShapes(type) ==
    {PayloadAbsent, PayloadNull,
     Payload(RichTextAbsent, FALSE, <<>>),
     Payload(RichTextNotArray, FALSE, <<>>)}
    \cup {Payload(RichText(r), type = "to_do",
                  IF type = "code" THEN <<"j", "s">> ELSE <<>>) : r \in RunSeqs}

\* b.type: seven of the known types, an unsupported one, and a record without type
BlockTypes ==
    {"paragraph", "heading_1", "numbered_list_item", "to_do", "code", "divider",
     "callout", "undefined"}

BlockLikes == UNION {{Block(t, pl) : pl \in PayloadShapes(t)} : t \in BlockTypes}

InitRender ==
    /\ markdown = <<>>
    /\ blocks \in UNION {[1..k -> BlockLikes] : k \in 0..MaxBlocks}
    /\ rendered = NotCalled
    /\ plain = NotCalled
    /\ convPc = "blocks"
    /\ ScanIdle /\ ClientIdle /\ OthersIdle

NextRender == BlocksToMarkdown \/ BlocksToPlainText

SpecRender == InitRender /\ [][NextRender]_vars

-----------------------------------------------------------------------------
(* The renderers on one paragraph whose runs carry any set of annotations *)

MaxRuns == 2

\* a run with any of the four annotations, with or without a link
AnnotatedRuns ==
    {[content |-> <<"a">>, annotations |-> an, link |-> l] :
        an \in SUBSET {"bold", "italic", "strikethrough", "code"}, l \in {<<>>, <<"u">>}}

InitRuns ==
    /\ markdown = <<>>
    /\ blocks \in {<<Block("paragraph", Payload(RichText(r), FALSE, <<>>))>> :
                      r \in UNION {[1..k -> AnnotatedRuns] : k \in 1..MaxRuns}}
    /\ rendered = NotCalled
    /\ plain = NotCalled
    /\ convPc = "blocks"
    /\ ScanIdle /\ ClientIdle /\ OthersIdle

SpecRuns == InitRuns /\ [][NextRender]_vars

-----------------------------------------------------------------------------
(* NotionClient: rateLimit and request, with concurrent callers *)

\* rateLimitConfig.minDelayMs
MinDelayMs == 334

\* Date.now() when the first request is made
StartTime == 1000

\* how many milliseconds before its time a timer may fire: setTimeout and
\* Date.now() round the same clock differently
TimerEarly == 1

\* how far the clock advances in one step
ClockSteps == {100, MinDelayMs - TimerEarly, MinDelayMs}

\* the clock stops here
EndTime == StartTime + 2 * MinDelayMs + 100

Callers == 1..MaxCalls

InitClient ==
    /\ now = StartTime
    /\ lastRequestTime = 0
    /\ calls = [c \in Callers |-> [pc |-> "idle", wakeAt |-> 0, sentAt |-> 0]]
    /\ ScanIdle /\ ConvIdle /\ OthersIdle

\* request() is called: rateLimit runs up to its await.  With no delay due it
\* stores lastRequestTime and returns, and request() waits at 'await
\* this.rateLimit()' for its turn in the job queue; otherwise the call sleeps
\* on the timer, leaving lastRequestTime as it was
Request(c) ==
    /\ calls[c].pc = "idle"
    /\ LET timeSinceLastRequest == now - lastRequestTime
       IN  IF timeSinceLastRequest < MinDelayMs
           THEN /\ calls' = [calls EXCEPT ![c].pc = "sleeping",
                                          ![c].wakeAt = now + (MinDelayMs - timeSinceLastRequest)]
                /\ UNCHANGED lastRequestTime
           ELSE /\ lastRequestTime' = now
                /\ calls' = [calls EXCEPT ![c].pc = "limited"]
    /\ UNCHANGED now
    /\ UNCHANGED <<scanVars, convVars, otherVars>>

\* the timer fires, at its time, a millisecond before it or later: rateLimit
\* stores lastRequestTime and returns, and request() waits for its turn in
\* the job queue
Wake(c) ==
    /\ calls[c].pc = "sleeping"
    /\ now >= calls[c].wakeAt - TimerEarly
    /\ lastRequestTime' = now
    /\ calls' = [calls EXCEPT ![c].pc = "limited"]
    /\ UNCHANGED now
    /\ UNCHANGED <<scanVars, convVars, otherVars>>

\* request() resumes after 'await this.rateLimit()' and calls fetch; the
\* jobs that ran since the store (other callers among them) may have taken
\* time
Fetch(c) ==
    /\ calls[c].pc = "limited"
    /\ calls' = [calls EXCEPT ![c].pc = "sent", ![c].sentAt = now]
    /\ UNCHANGED <<now, lastRequestTime>>
    /\ UNCHANGED <<scanVars, convVars, otherVars>>

\* time passes
Advance ==
    /\ \E d \in ClockSteps : now + d <= EndTime /\ now' = now + d
    /\ UNCHANGED <<lastRequestTime, calls>>
    /\ UNCHANGED <<scanVars, convVars, otherVars>>

NextClient == (\E c \in Callers : Request(c) \/ Wake(c) \/ Fetch(c)) \/ Advance

SpecClient == InitClient /\ [][NextClient]_vars

-----------------------------------------------------------------------------
(* Claims about parseInlineFormatting, checked under SpecScan *)

RECURSIVE Contents(_)
\* the content of every run, concatenated in order
Contents(runs) == IF runs = <<>> THEN <<>> ELSE Head(runs).content \o Contents(Tail(runs))

\* the delimiter the scanner reads for an annotation
DelimiterOf(annotation) ==
    CASE annotation = "bold" -> <<"*", "*">>
      [] annotation = "italic" -> <<"*">>
      [] annotation = "strikethrough" -> <<"~", "~">>
      [] annotation = "code" -> <<Tick>>

\* the input text a run was read from: its content between its delimiters,
\* '[content](url)' for a link, the content alone for a plain run
SourceOf(run) ==
    IF run.link # <<>>
    THEN <<"[">> \o run.content \o <<"]", "(">> \o run.link \o <<")">>
    ELSE IF run.annotations = {} THEN run.content
    ELSE LET d == DelimiterOf(CHOOSE a \in run.annotations : TRUE)
         IN  d \o run.content \o d

RECURSIVE Sources(_)
Sources(runs) == IF runs = <<>> THEN <<>> ELSE SourceOf(Head(runs)) \o Sources(Tail(runs))

IsPlain(run) == run.annotations = {} /\ run.link = <<>>

\* C1 as stated: for every input, the contents of the runs returned,
\* concatenated in order, are the input.  Refuted by any input with a
\* construct: the delimiters (and a link's url) are in no run's content.
C1_ContentPreserved ==
    scanPc = "done" => Contents(result) = text

\* C1 amended: the contents of the runs returned, each put back between the
\* delimiters of its annotation (or written [content](url) for a link),
\* concatenated in order, are the input; the contents alone are the input
\* when every run is plain.
C1_SourcePreserved ==
    scanPc = "done" =>
        /\ Sources(result) = text
        /\ (\A i \in 1..Len(result) : IsPlain(result[i])) => Contents(result) = text

\* C1 witness: a finished scan that returned text before a construct, an
\* annotated run and text after it
C1_Witness ==
    /\ scanPc = "done"
    /\ Len(result) = 3
    /\ IsPlain(result[1]) /\ result[2].annotations # {} /\ IsPlain(result[3])

-----------------------------------------------------------------------------
(* Claims about markdownToBlocks and the renderers, checked under SpecConv *)

\* the shapes of a trimmed line, as the specification words them
HeadingLevel(t) ==
    IF Len(t) >= 4 /\ SubSeq(t, 1, 4) = <<"#", "#", "#", " ">> THEN 3
    ELSE IF Len(t) >= 3 /\ SubSeq(t, 1, 3) = <<"#", "#", " ">> THEN 2
    ELSE IF Len(t) >= 2 /\ SubSeq(t, 1, 2) = <<"#", " ">> THEN 1
    ELSE 0

HeadingType(k) ==
    CASE k = 1 -> "heading_1" [] k = 2 -> "heading_2" [] k = 3 -> "heading_3"

HasTodoMarker(t) ==
    /\ Len(t) >= 6
    /\ t[1] = "-" /\ t[2] = " " /\ t[3] = "[" /\ t[4] \in {" ", "x"}
    /\ t[5] = "]" /\ t[6] = " "

HasDashMarker(t) == Len(t) >= 2 /\ t[1] = "-" /\ t[2] = " "

HasBulletMarker(t) == Len(t) >= 2 /\ t[1] \in {"-", "*"} /\ t[2] = " "

\* digits, '.', one or more blanks, content: the index where the content starts
NumberedContentStart(t) ==
    LET fits == {n \in 4..Len(t) :
                    \E d \in 1..(n - 3) :
                        /\ \A i \in 1..d : t[i] \in Digits
                        /\ t[d + 1] = "."
                        /\ \A i \in (d + 2)..(n - 1) : t[i] \in WhiteSpace
                        /\ t[n] \notin WhiteSpace}
    IN  IF fits = {} THEN 0 ELSE Min(fits)

HasNumberedShape(t) == NumberedContentStart(t) > 0

\* the numbered shape with a content the regular expression dot accepts: no
\* CR, U+2028 or U+2029 in it
HasNumberedPattern(t) ==
    /\ HasNumberedShape(t)
    /\ \A i \in NumberedContentStart(t)..Len(t) : t[i] \notin LineTerminators

HasQuoteMarker(t) == Len(t) >= 2 /\ t[1] = ">" /\ t[2] = " "

IsDividerLine(t) == Len(t) = 3 /\ t[1] \in {"-", "*", "_"} /\ t[2] = t[1] /\ t[3] = t[1]

Structural(t) ==
    \/ HeadingLevel(t) > 0 \/ HasTodoMarker(t) \/ HasBulletMarker(t)
    \/ HasNumberedPattern(t) \/ HasQuoteMarker(t) \/ IsDividerLine(t)

\* a fence marker line: three grave accents at the start of the line
IsMarkerLine(line) == Len(line) >= 3 /\ line[1] = Tick /\ line[2] = Tick /\ line[3] = Tick

\* the language tag of a marker line
TagOf(line) ==
    IF Trim(SubSeq(line, 4, Len(line))) = <<>> THEN PlainTextLanguage
    ELSE Trim(SubSeq(line, 4, Len(line)))

LinesOf(m) == Split(m, "\n")
OneLine(m) == Len(LinesOf(m)) = 1 /\ ~IsMarkerLine(m)
MarkerIndexes(m) == {i \in 1..Len(LinesOf(m)) : IsMarkerLine(LinesOf(m)[i])}

\* the lines outside every fence: an even number of markers comes before them
ProseIndexes(m) ==
    {i \in 1..Len(LinesOf(m)) :
        /\ i \notin MarkerIndexes(m)
        /\ Cardinality({j \in MarkerIndexes(m) : j < i}) % 2 = 0}

RECURSIVE Ascending(_)
\* the members of a finite set of numbers, in increasing order
Ascending(S) == IF S = {} THEN <<>> ELSE <<Min(S)>> \o Ascending(S \ {Min(S)})

\* a code block as the data model has it
CodeBlock(body, language) ==
    [type |-> "code",
     payload |-> [kind |-> "object",
                  rich_text |-> [kind |-> "array",
                                 runs |-> <<[content |-> body, annotations |-> {},
                                             link |-> <<>>]>>],
                  checked |-> FALSE, language |-> language]]

\* a block of rich text as the data model has it
RichBlock(type, runs, checked) ==
    [type |-> type,
     payload |-> [kind |-> "object", rich_text |-> [kind |-> "array", runs |-> runs],
                  checked |-> checked, language |-> <<>>]]

HasAnnotatedRun(b) ==
    /\ b.payload.rich_text.kind = "array"
    /\ \E i \in 1..Len(b.payload.rich_text.runs) :
          b.payload.rich_text.runs[i].annotations # {}

\* m is a string that makes one block and has no surrounding whitespace
SingleBlock(m) == m = Trim(m) /\ Len(markdownToBlocks(m)) = 1

\* C2 as stated: a markdown string that is a single block is rendered back
\* unchanged.  Refuted by a '* ' bullet, a numbered item that is not '1. ',
\* a '***' divider and every code fence.
C2_RoundTrip ==
    (convPc = "rendered" /\ SingleBlock(markdown)) => rendered = Returned(markdown)

\* one line, without surrounding whitespace, no code fence, and written as
\* the renderer writes blocks: '- ' bullets, '1. ' numbering followed
\* directly by the content, '---' dividers
Canonical(m) ==
    /\ OneLine(m) /\ m = Trim(m) /\ m # <<>>
    /\ ~(HasBulletMarker(m) /\ m[1] = "*")
    /\ IsDividerLine(m) => m[1] = "-"
    /\ HasNumberedShape(m) => (NumberedContentStart(m) = 4 /\ m[1] = "1" /\ m[3] = " ")

\* C2 amended: blocksToMarkdown(markdownToBlocks(m)) = m for every m that is
\* one line in the renderer's canonical form with at most one inline
\* annotation.
C2_RoundTripCanonical ==
    (convPc = "rendered" /\ Canonical(markdown)) =>
        Len(blocks) = 1 /\ rendered = Returned(markdown)

\* C2 witness: a canonical numbered item with an annotated run was rendered
C2_Witness ==
    /\ convPc = "rendered" /\ Canonical(markdown)
    /\ Len(blocks) = 1 /\ blocks[1].type = "numbered_list_item"
    /\ HasAnnotatedRun(blocks[1])

KnownTypes ==
    {"paragraph", "heading_1", "heading_2", "heading_3", "bulleted_list_item",
     "numbered_list_item", "to_do", "quote", "code", "divider"}

\* the prose lines that are not blank and have no structural shape
PlainProse(m) ==
    Ascending({i \in ProseIndexes(m) :
                  Trim(LinesOf(m)[i]) # <<>> /\ ~Structural(Trim(LinesOf(m)[i]))})

IsParagraph(b) == b.type = "paragraph"

\* C4: markdownToBlocks returns a sequence of blocks of the ten types for
\* every input; the paragraphs among them are, in order, the non-blank prose
\* lines that match no structural pattern, each holding the inline scan of
\* its trimmed text; the empty string gives no block.
C4_ProseBecomesParagraph ==
    convPc = "blocks" =>
        /\ \A i \in 1..Len(blocks) : blocks[i].type \in KnownTypes
        /\ SelectSeq(blocks, IsParagraph) =
              [k \in 1..Len(PlainProse(markdown)) |->
                  RichBlock("paragraph",
                            parseInlineFormatting(Trim(LinesOf(markdown)[PlainProse(markdown)[k]])),
                            FALSE)]
        /\ markdown = <<>> => blocks = <<>>

\* C4 witness: a document gave a paragraph with an annotated run after
\* another block
C4_Witness ==
    /\ convPc = "blocks" /\ Len(blocks) >= 2
    /\ blocks[1].type # "paragraph"
    /\ blocks[2].type = "paragraph" /\ HasAnnotatedRun(blocks[2])

\* m is an opening marker line, body lines and a closing marker line
FencedRegion(m) ==
    /\ Len(LinesOf(m)) >= 2
    /\ MarkerIndexes(m) = {1, Len(LinesOf(m))}

BodyOf(m) == Join(SubSeq(LinesOf(m), 2, Len(LinesOf(m)) - 1), NewLine)

\* C6: a fenced region gives exactly one code block; its rich_text is one
\* plain run holding the body lines joined by newlines, unscanned, and its
\* language is the (trimmed) text after the opening marker, or "plain text".
C6_FenceIsOneCodeBlock ==
    (convPc = "blocks" /\ FencedRegion(markdown)) =>
        blocks = <<CodeBlock(BodyOf(markdown), TagOf(LinesOf(markdown)[1]))>>

\* C6 witness: a fence tagged js with two body lines, one holding markup
C6_Witness ==
    /\ convPc = "blocks" /\ FencedRegion(markdown)
    /\ Len(LinesOf(markdown)) = 4
    /\ LinesOf(markdown)[2] = <<"*", "a", "*">>
    /\ blocks[1].payload.language = <<"j", "s">>

\* the input ends inside a fence: the number of marker lines is odd
Unterminated(m) == Cardinality(MarkerIndexes(m)) % 2 = 1

LastMarker(m) == CHOOSE i \in MarkerIndexes(m) : \A j \in MarkerIndexes(m) : j <= i

AfterLastMarker(m) ==
    Join(SubSeq(LinesOf(m), LastMarker(m) + 1, Len(LinesOf(m))), NewLine)

IsCode(b) == b.type = "code"

\* C7 as stated: an input that ends inside a fence has that fence emitted
\* as the last code block, with the language captured at its opening marker.
\* Refuted when the opening marker is the last line: nothing is emitted.
C7_UnterminatedEmitted ==
    (convPc = "blocks" /\ Unterminated(markdown)) =>
        /\ blocks # <<>>
        /\ blocks[Len(blocks)].type = "code"
        /\ blocks[Len(blocks)].payload.language = TagOf(LinesOf(markdown)[LastMarker(markdown)])

\* C7 amended: an input that ends inside a fence whose opening marker is
\* followed by at least one line has that fence emitted as the last code
\* block, holding those lines and the language captured at the opening
\* marker; an opening marker on the last line of the input emits nothing.
C7_UnterminatedWithBody ==
    (convPc = "blocks" /\ Unterminated(markdown)) =>
        IF LastMarker(markdown) < Len(LinesOf(markdown))
        THEN /\ blocks # <<>>
             /\ blocks[Len(blocks)] =
                   CodeBlock(AfterLastMarker(markdown),
                             TagOf(LinesOf(markdown)[LastMarker(markdown)]))
             /\ Len(SelectSeq(blocks, IsCode)) = (Cardinality(MarkerIndexes(markdown)) + 1) \div 2
        ELSE Len(SelectSeq(blocks, IsCode)) = (Cardinality(MarkerIndexes(markdown)) - 1) \div 2

\* C7 witness: text, then an opening marker tagged js and a body line, and
\* the input ends
C7_Witness ==
    /\ convPc = "blocks" /\ Unterminated(markdown)
    /\ LastMarker(markdown) = 2 /\ Len(LinesOf(markdown)) = 3
    /\ Len(blocks) = 2
    /\ blocks[2].type = "code" /\ blocks[2].payload.language = <<"j", "s">>

\* C8: a line whose trimmed text starts with k '#' and a space (k in 1..3)
\* gives exactly one heading_k block holding the inline scan of the text
\* after the marker, and no other line gives a heading: the result a
\* classifier testing '### ' before '## ' before '# ' gives.
C8_HeadingLevels ==
    (convPc = "blocks" /\ OneLine(markdown)) =>
        LET t == Trim(markdown)
            k == HeadingLevel(t)
        IN  IF k > 0
            THEN blocks = <<RichBlock(HeadingType(k),
                                      parseInlineFormatting(SubSeq(t, k + 2, Len(t))),
                                      FALSE)>>
            ELSE \A i \in 1..Len(blocks) :
                    blocks[i].type \notin {"heading_1", "heading_2", "heading_3"}

\* C8 witness: an indented '### ' line gave a heading_3 with an annotated run
C8_Witness ==
    /\ convPc = "blocks" /\ OneLine(markdown)
    /\ markdown # <<>> /\ markdown[1] = " " /\ HeadingLevel(Trim(markdown)) = 3
    /\ blocks[1].type = "heading_3" /\ HasAnnotatedRun(blocks[1])

\* C9: a line whose trimmed text starts with '- [ ] ' or '- [x] ' gives a
\* to_do block, never a bulleted_list_item, checked exactly for '- [x] ',
\* holding the inline scan of the text after the six-character marker.
C9_TodoClassification ==
    (convPc = "blocks" /\ OneLine(markdown) /\ HasTodoMarker(Trim(markdown))) =>
        LET t == Trim(markdown)
        IN  blocks = <<RichBlock("to_do", parseInlineFormatting(SubSeq(t, 7, Len(t))),
                                 t[4] = "x")>>

\* C9 witness: a '- [x] ' line gave a checked to_do with an annotated run
C9_Witness ==
    /\ convPc = "blocks" /\ OneLine(markdown) /\ HasTodoMarker(Trim(markdown))
    /\ blocks[1].type = "to_do" /\ blocks[1].payload.checked
    /\ HasAnnotatedRun(blocks[1])

\* a list line: '- content' that is no checkbox, or digits '.' blanks content
ListLine(t) == (HasDashMarker(t) /\ ~HasTodoMarker(t)) \/ HasNumberedShape(t)

\* the block the claim gives for a list line
ListBlock(t) ==
    IF HasDashMarker(t)
    THEN RichBlock("bulleted_list_item", parseInlineFormatting(SubSeq(t, 3, Len(t))), FALSE)
    ELSE RichBlock("numbered_list_item",
                   parseInlineFormatting(SubSeq(t, NumberedContentStart(t), Len(t))), FALSE)

\* C10 as stated: '- content' gives a bulleted_list_item and digits, '.',
\* blanks, content gives a numbered_list_item whatever the number and
\* whatever the content; a document of consecutive list lines gives one
\* block for each line, in source order.  Refuted by a numbered line whose
\* content holds a line terminator character: it becomes a paragraph.
C10_ListClassification ==
    (/\ convPc = "blocks"
     /\ MarkerIndexes(markdown) = {}
     /\ \A i \in 1..Len(LinesOf(markdown)) : ListLine(Trim(LinesOf(markdown)[i]))) =>
        blocks = [i \in 1..Len(LinesOf(markdown)) |-> ListBlock(Trim(LinesOf(markdown)[i]))]

\* a list line whose numbered form has a content the dot accepts
ListLineOfDots(t) == (HasDashMarker(t) /\ ~HasTodoMarker(t)) \/ HasNumberedPattern(t)

\* C10 amended: '- content' gives a bulleted_list_item, and digits, '.', one
\* or more white-space characters, content gives a numbered_list_item
\* whatever the number when the content holds no CR, U+2028 or U+2029
\* (otherwise the line is a paragraph holding the whole line); a document
\* of such list lines gives one block for each line, in source order.
C10_ListClassificationOfDots ==
    /\ (/\ convPc = "blocks"
         /\ MarkerIndexes(markdown) = {}
         /\ \A i \in 1..Len(LinesOf(markdown)) : ListLineOfDots(Trim(LinesOf(markdown)[i]))) =>
            blocks = [i \in 1..Len(LinesOf(markdown)) |-> ListBlock(Trim(LinesOf(markdown)[i]))]
    /\ (/\ convPc = "blocks" /\ OneLine(markdown)
         /\ HasNumberedShape(Trim(markdown)) /\ ~HasNumberedPattern(Trim(markdown))) =>
            blocks = <<RichBlock("paragraph", parseInlineFormatting(Trim(markdown)), FALSE)>>

\* a numbered line whose blank is a form feed gave a numbered_list_item
NumberedAfterFormFeed ==
    /\ convPc = "blocks" /\ OneLine(markdown) /\ Len(blocks) = 1
    /\ blocks[1].type = "numbered_list_item"
    /\ HasNumberedPattern(Trim(markdown)) /\ Trim(markdown)[3] = "\f"

\* C10 witness: four list lines, a bullet first and a numbered item second,
\* gave four blocks
C10_Witness ==
    /\ convPc = "blocks" /\ Len(LinesOf(markdown)) = 4 /\ Len(blocks) = 4
    /\ blocks[1].type = "bulleted_list_item"
    /\ blocks[2].type = "numbered_list_item"
    /\ \A i \in 1..4 : ListLineOfDots(Trim(LinesOf(markdown)[i]))

-----------------------------------------------------------------------------
(* Claims about the renderers on caller-built records, under SpecRender *)

\* C3: blocksToMarkdown and blocksToPlainText return a string for every
\* sequence of block-like records, whatever their shape.  Refuted by a known
\* type without payload (blocksToMarkdown) and by a rich_text that is no
\* array (blocksToPlainText): both raise a TypeError.
C3_RenderersNeverRaise ==
    /\ convPc = "rendered" => ~rendered.threw
    /\ convPc = "extracted" => ~plain.threw

-----------------------------------------------------------------------------
(* Claims about NotionClient, under SpecClient *)

\* C5: any two requests sent through one client reach the network at least
\* minDelayMs apart.  Refuted by calls that overlap: each sleeping call
\* computes its delay from the same lastRequestTime.
C5_RequestsSpaced ==
    \A c, d \in Callers :
        (c # d /\ calls[c].pc = "sent" /\ calls[d].pc = "sent") =>
            \/ calls[c].sentAt - calls[d].sentAt >= MinDelayMs
            \/ calls[d].sentAt - calls[c].sentAt >= MinDelayMs

-----------------------------------------------------------------------------
(* Further claims about markdownToBlocks, checked under SpecConv *)

\* the divider block as the data model has it: no rich_text, nothing else
DividerBlock ==
    [type |-> "divider",
     payload |-> [kind |-> "object",
                  rich_text |-> [kind |-> "undefined", runs |-> <<>>],
                  checked |-> FALSE, language |-> <<>>]]

IsDivider(b) == b.type = "divider"

\* the prose lines whose trimmed text is '---', '***' or '___'
DividerLines(m) == {i \in ProseIndexes(m) : IsDividerLine(Trim(LinesOf(m)[i]))}

\* C11: a prose line gives a divider block, without rich_text, if and only
\* if its trimmed text is exactly '---', '***' or '___': a one-line document
\* is a divider line exactly when its blocks are the one divider block, and
\* the dividers of any document are as many as its prose divider lines.
C11_DividerExactly ==
    convPc = "blocks" =>
        /\ OneLine(markdown) =>
              (IsDividerLine(Trim(markdown)) <=> blocks = <<DividerBlock>>)
        /\ \A i \in 1..Len(blocks) : IsDivider(blocks[i]) => blocks[i] = DividerBlock
        /\ Len(SelectSeq(blocks, IsDivider)) = Cardinality(DividerLines(markdown))

\* C11 witness: an indented '***' line gave the divider block
C11_Witness ==
    /\ convPc = "blocks" /\ OneLine(markdown)
    /\ Trim(markdown) = <<"*", "*", "*">> /\ markdown # Trim(markdown)
    /\ blocks = <<DividerBlock>>

-----------------------------------------------------------------------------
(* Claims about blocksToMarkdown on parsed documents, checked under SpecConv *)

\* the prefix the specification gives each block type
PrefixOf(b) ==
    IF b.type = "heading_1" THEN <<"#", " ">>
    ELSE IF b.type = "heading_2" THEN <<"#", "#", " ">>
    ELSE IF b.type = "heading_3" THEN <<"#", "#", "#", " ">>
    ELSE IF b.type = "bulleted_list_item" THEN <<"-", " ">>
    ELSE IF b.type = "numbered_list_item" THEN <<"1", ".", " ">>
    ELSE IF b.type = "to_do" /\ b.payload.checked THEN <<"-", " ", "[", "x", "]", " ">>
    ELSE IF b.type = "to_do" THEN <<"-", " ", "[", " ", "]", " ">>
    ELSE IF b.type = "quote" THEN <<">", " ">>
    ELSE <<>>

\* the rendering of one block that is no code block
RenderingOf(b) ==
    IF b.type = "divider" THEN <<"-", "-", "-">>
    ELSE PrefixOf(b) \o richTextToMarkdown(b.payload.rich_text)

NoCodeBlock(bs) == \A i \in 1..Len(bs) : bs[i].type # "code"

\* C12: for blocks of the types other than code, blocksToMarkdown returns
\* the renderings of the blocks, in input order, joined by exactly two
\* newlines; a rendering is the prefix of the type ('# ', '## ', '### ',
\* '- ', always '1. ', '- [x] ' or '- [ ] ', '> ', nothing for a paragraph)
\* followed by the rendered runs, and '---' for a divider.
C12_RenderingsJoined ==
    (convPc = "rendered" /\ NoCodeBlock(blocks)) =>
        rendered = Returned(Join([i \in 1..Len(blocks) |-> RenderingOf(blocks[i])],
                                 <<"\n", "\n">>))

\* C12 witness: four blocks were rendered, a bulleted item, a numbered item
\* numbered 2 in the source and a paragraph with an annotated run among them
C12_Witness ==
    /\ convPc = "rendered" /\ Len(blocks) = 4 /\ NoCodeBlock(blocks)
    /\ blocks[1].type = "bulleted_list_item"
    /\ blocks[2].type = "numbered_list_item"
    /\ blocks[3].type = "paragraph" /\ HasAnnotatedRun(blocks[3])
    /\ ~rendered.threw /\ Len(rendered.value) > 0

\* a code block on three lines: the fence with the language tag, the raw
\* body, the closing fence
CodeRenderingOf(b) ==
    Fence \o b.payload.language \o NewLine
        \o richTextToMarkdown(b.payload.rich_text) \o NewLine \o Fence

\* C13: blocksToMarkdown renders a code block on three lines, the opening
\* fence with the language tag, the raw body and the closing fence, with no
\* blank line between them (and two newlines between blocks).  Refuted by
\* every code block: the three strings are pushed as three entries of lines
\* and the final join puts a blank line after the opening fence and before
\* the closing one.
C13_CodeOnThreeLines ==
    convPc = "rendered" =>
        rendered = Returned(Join([i \in 1..Len(blocks) |->
                                     IF blocks[i].type = "code"
                                     THEN CodeRenderingOf(blocks[i])
                                     ELSE RenderingOf(blocks[i])],
                                 <<"\n", "\n">>))

-----------------------------------------------------------------------------
(* Claims about blocksToPlainText on caller-built records, under SpecRender *)

\* the block carries a rich_text payload: a sequence of runs
CarriesRichText(b) == b.payload.kind = "object" /\ b.payload.rich_text.kind = "array"

\* the block's rich_text, where it has one, is a sequence of runs
RichTextIsRuns(b) == b.payload.kind = "object" => b.payload.rich_text.kind # "string"

\* the line of a block: the content of its runs, concatenated
PlainLineOf(b) == IF CarriesRichText(b) THEN Contents(b.payload.rich_text.runs) ELSE <<>>

NonEmpty(line) == line # <<>>

\* C14: blocksToPlainText returns, for the blocks that carry a rich_text
\* payload, the concatenation of their runs' content (annotations and links
\* ignored), one line per block, only the non-empty lines, joined by one
\* newline; a block without rich_text contributes nothing and the empty
\* sequence gives the empty string.
C14_PlainTextLines ==
    (convPc = "extracted" /\ \A i \in 1..Len(blocks) : RichTextIsRuns(blocks[i])) =>
        /\ plain = Returned(Join(SelectSeq([i \in 1..Len(blocks) |-> PlainLineOf(blocks[i])],
                                           NonEmpty),
                                 NewLine))
        /\ blocks = <<>> => plain = Returned(<<>>)

\* C14 witness: a block without rich_text and a block of two runs, the first
\* annotated and linked, gave the one line 'ab'
C14_Witness ==
    /\ convPc = "extracted" /\ Len(blocks) = 2
    /\ blocks[1].payload.kind = "object" /\ blocks[1].payload.rich_text.kind = "undefined"
    /\ CarriesRichText(blocks[2]) /\ Len(blocks[2].payload.rich_text.runs) = 2
    /\ blocks[2].payload.rich_text.runs[1].link # <<>>
    /\ plain = Returned(<<"a", "b">>)

-----------------------------------------------------------------------------
(* Claims about blocksToPlainText(markdownToBlocks(m)), under SpecConv *)

\* where the content of a trimmed line starts, after its block marker
ContentStart(t) ==
    IF HeadingLevel(t) > 0 THEN HeadingLevel(t) + 2
    ELSE IF HasTodoMarker(t) THEN 7
    ELSE IF HasBulletMarker(t) THEN 3
    ELSE IF HasNumberedPattern(t) THEN NumberedContentStart(t)
    ELSE IF HasQuoteMarker(t) THEN 3
    ELSE 1

\* the visible characters of a line: its trimmed text without the block
\* marker and without the markup of the inline constructs the scanner finds
\* (delimiters and link targets); nothing for a divider or a blank line
VisibleOf(line) ==
    LET t == Trim(line)
    IN  IF t = <<>> \/ IsDividerLine(t) THEN <<>>
        ELSE Contents(parseInlineFormatting(SubSeq(t, ContentStart(t), Len(t))))

\* every line that is no fence marker, stripped, the empty ones left out
VisibleLines(m) ==
    SelectSeq([k \in 1..Len(Ascending((1..Len(LinesOf(m))) \ MarkerIndexes(m))) |->
                  VisibleOf(LinesOf(m)[Ascending((1..Len(LinesOf(m))) \ MarkerIndexes(m))[k]])],
              NonEmpty)

HasText(b) == PlainLineOf(b) # <<>>

\* C15 as stated: the plain text of a parsed document is the visible
\* characters of its lines, block markers and inline markup stripped, one
\* line per block, joined by single newlines.  Refuted by fenced code: the
\* body of a code block is kept whole, with its markup, its blank lines and
\* all its lines in the one block.
C15_VisibleCharacters ==
    convPc = "extracted" =>
        /\ plain = Returned(Join(VisibleLines(markdown), NewLine))
        /\ Len(VisibleLines(markdown)) = Len(SelectSeq(blocks, HasText))

\* the 1-based line index of the marker that follows line i, or one past
\* the last line
NextMarker(m, i) ==
    Min({j \in MarkerIndexes(m) : j > i} \cup {Len(LinesOf(m)) + 1})

\* line i is a marker that opens a fence
OpensFence(m, i) ==
    i \in MarkerIndexes(m) /\ Cardinality({j \in MarkerIndexes(m) : j < i}) % 2 = 0

\* what line i contributes: a prose line its visible characters, an opening
\* marker the raw body of its fence, anything else nothing
EntryOf(m, i) ==
    IF i \in ProseIndexes(m)
    THEN IF VisibleOf(LinesOf(m)[i]) # <<>> THEN << VisibleOf(LinesOf(m)[i]) >> ELSE <<>>
    ELSE IF OpensFence(m, i)
    THEN IF Join(SubSeq(LinesOf(m), i + 1, NextMarker(m, i) - 1), NewLine) # <<>>
         THEN << Join(SubSeq(LinesOf(m), i + 1, NextMarker(m, i) - 1), NewLine) >>
         ELSE <<>>
    ELSE <<>>

\* C15 amended: the plain text of a parsed document is, joined by single
\* newlines and in source order, the visible characters of each prose line
\* outside fences (block marker and inline markup stripped, blank lines and
\* dividers giving nothing) and the raw body of each fence, unstripped and
\* with all its lines, when that body is not empty.
C15_VisibleProseRawCode ==
    convPc = "extracted" =>
        plain = Returned(Join(Flatten([i \in 1..Len(LinesOf(markdown)) |-> EntryOf(markdown, i)]),
                              NewLine))

\* C15 witness: a prose line with inline markup, then a fence whose body
\* holds markup, gave two lines, the second with the markup kept
C15_Witness ==
    /\ convPc = "extracted" /\ Len(LinesOf(markdown)) = 4
    /\ LinesOf(markdown)[1] = <<"*", "a", "*">>
    /\ OpensFence(markdown, 2)
    /\ LinesOf(markdown)[3] = <<"*", "a", "*">>
    /\ MarkerIndexes(markdown) = {2, 4}
    /\ plain = Returned(<<"a", "\n", "*", "a", "*">>)

-----------------------------------------------------------------------------
(* Further claims about parseInlineFormatting, checked under SpecScan *)

\* s holds a delimiter d, one or more characters of one line, and d again
HasDelimited(s, d) ==
    \E i \in 1..Len(s), j \in 1..Len(s) :
        /\ j >= i + Len(d) + 1 /\ j + Len(d) - 1 <= Len(s)
        /\ SubSeq(s, i, i + Len(d) - 1) = d
        /\ SubSeq(s, j, j + Len(d) - 1) = d
        /\ \A k \in (i + Len(d))..(j - 1) : s[k] \notin LineTerminators

\* s holds '[', one or more characters other than ']', '](', one or more
\* characters other than ')', and ')'
HasLink(s) ==
    \E i \in 1..Len(s), c \in 1..Len(s), e \in 1..Len(s) :
        /\ c >= i + 2 /\ e >= c + 3
        /\ s[i] = "[" /\ s[c] = "]" /\ s[c + 1] = "(" /\ s[e] = ")"
        /\ \A k \in (i + 1)..(c - 1) : s[k] # "]"
        /\ \A k \in (c + 2)..(e - 1) : s[k] # ")"

\* none of the five inline constructs occurs in s
NoConstruct(s) ==
    /\ ~HasDelimited(s, <<"*", "*">>) /\ ~HasDelimited(s, <<"*">>)
    /\ ~HasDelimited(s, <<"~", "~">>) /\ ~HasDelimited(s, <<Tick>>)
    /\ ~HasLink(s)

\* C16: for every input in which none of the five inline constructs
\* matches, parseInlineFormatting returns exactly one run, without
\* annotation or link, whose content is the whole input.
C16_NoMatchFallback ==
    (scanPc = "done" /\ NoConstruct(text)) =>
        result = <<[content |-> text, annotations |-> {}, link |-> <<>>]>>

\* C16 witness: an input holding delimiters that never pair up was returned
\* as one plain run
C16_Witness ==
    /\ scanPc = "done" /\ NoConstruct(text)
    /\ Len(text) >= 4
    /\ \E i \in 1..Len(text) : text[i] = "*"
    /\ \E i \in 1..Len(text) : text[i] = "~"
    /\ Len(result) = 1 /\ result[1].content = text

-----------------------------------------------------------------------------
(* Claims about parseCodeBlocks, the first step of markdownToBlocks, under
   SpecConv *)

\* the lines the segments hold, read in segment order
SegmentLines(parts) == Flatten([i \in 1..Len(parts) |-> Split(parts[i].content, "\n")])

\* the lines of m that are no fence markers, in order
NonMarkerLines(m) ==
    [k \in 1..Len(Ascending((1..Len(LinesOf(m))) \ MarkerIndexes(m))) |->
        LinesOf(m)[Ascending((1..Len(LinesOf(m))) \ MarkerIndexes(m))[k]]]

\* a fence is closed by the line after its opening marker
HasEmptyFence(m) == \E i \in MarkerIndexes(m) : OpensFence(m, i) /\ (i + 1) \in MarkerIndexes(m)

\* C17 as stated: the lines held by the segments of parseCodeBlocks, read in
\* segment order, are the input's lines other than fence markers, in order,
\* blank lines kept, none dropped or duplicated.  Refuted by a fence closed
\* right after its opening marker: its segment has the empty string as its
\* content, which is one blank line that the input does not have.
C17_LinesPreserved ==
    convPc = "blocks" =>
        SegmentLines(parseCodeBlocks(markdown)) = NonMarkerLines(markdown)

\* C17 amended: the same, for every input in which no fence is closed right
\* after its opening marker; the segments alternate with the fences, a code
\* segment for each fence that is closed or has a body.
C17_LinesPreservedNonEmptyFences ==
    (convPc = "blocks" /\ ~HasEmptyFence(markdown)) =>
        SegmentLines(parseCodeBlocks(markdown)) = NonMarkerLines(markdown)

\* C17 witness: a blank line, then a fence whose body is one blank line
\* gave a prose segment and a code segment, each holding its blank line
C17_Witness ==
    /\ convPc = "blocks" /\ ~HasEmptyFence(markdown)
    /\ Len(LinesOf(markdown)) = 4 /\ MarkerIndexes(markdown) = {2, 4}
    /\ LinesOf(markdown)[1] = <<>> /\ LinesOf(markdown)[3] = <<>>
    /\ Len(parseCodeBlocks(markdown)) = 2
    /\ ~parseCodeBlocks(markdown)[1].isCode /\ parseCodeBlocks(markdown)[2].isCode

-----------------------------------------------------------------------------
(* A caller making conversion calls one after another *)

\* most calls in one history
MaxHistory == 3

\* the strings given to parseInlineFormatting
PureTexts ==
    {<<"a">>,
     <<"*", "a", "*">>,
     <<"a", "*", "a", "*">>,
     <<"*", "*", "a", "*", "*", "[", "a", "]", "(", "b", ")">>}

\* the documents given to markdownToBlocks
PureDocs ==
    {<<"#", " ", "*", "a", "*">>,
     <<"-", " ", "*", "a", "*", "\n", "*", "a", "*", "\n", Tick, Tick, Tick, "\n", "b">>}

\* the block sequences given to the renderers
PureBlocks == {markdownToBlocks(d) : d \in PureDocs}

\* the text lineToBlock hands to parseInlineFormatting for a line: none for
\* a blank line and for a rule
ScannedText(line) ==
    LET trimmed == Trim(line)
        Scans(t) == [scans |-> TRUE, text |-> t]
    IN  IF trimmed = <<>> THEN [scans |-> FALSE, text |-> <<>>]
        ELSE IF IsHeading1(trimmed) THEN Scans(SubstringFrom(trimmed, 2))
        ELSE IF IsHeading2(trimmed) THEN Scans(SubstringFrom(trimmed, 3))
        ELSE IF IsHeading3(trimmed) THEN Scans(SubstringFrom(trimmed, 4))
        ELSE IF IsTodo(trimmed) THEN Scans(SubstringFrom(trimmed, 6))
        ELSE IF IsBullet(trimmed) THEN Scans(SubstringFrom(trimmed, 2))
        ELSE IF IsNumbered(trimmed) THEN Scans(NumberedMatch(trimmed))
        ELSE IF IsQuote(trimmed) THEN Scans(SubstringFrom(trimmed, 2))
        ELSE IF IsRule(trimmed) THEN [scans |-> FALSE, text |-> <<>>]
        ELSE Scans(trimmed)

\* a block with the rich_text a call of parseInlineFormatting returned, and
\* the store the call left
ScannedBlock(block, call) ==
    [block |-> [block EXCEPT !.payload.rich_text = RichText(call.result)],
     lastIndex |-> call.lastIndex]

\* the block of a line whose text s is scanned, or not, on the store
BlockOn(block, s, stored) ==
    IF s.scans THEN ScannedBlock(block, parseInlineFormattingOn(s.text, stored))
    ELSE [block |-> block, lastIndex |-> stored]

\* the line gets as far as trimmed.match(/^(\d+)\.\s+(.+)$/): it is not
\* blank, and none of the heading, to-do and bullet branches returned
ReachesNumberedMatch(trimmed) ==
    /\ trimmed # <<>>
    /\ ~IsHeading1(trimmed) /\ ~IsHeading2(trimmed) /\ ~IsHeading3(trimmed)
    /\ ~IsTodo(trimmed) /\ ~IsBullet(trimmed)

\* lineToBlock on the store: a line that reaches the numbered-list test
\* creates that test's regular expression (no g flag: its lastIndex stays
\* 0) before any scan, and the block's rich_text is what the call of
\* parseInlineFormatting on the store returned
lineToBlockOn(line, stored) ==
    BlockOn(lineToBlock(line), ScannedText(line),
            IF ReachesNumberedMatch(Trim(line)) THEN Append(stored, 0) ELSE stored)

\* if (block) blocks.push(block), with the store lineToBlock left
PushOn(pushed, r) ==
    [blocks |-> IF IsBlock(r.block) THEN Append(pushed.blocks, r.block) ELSE pushed.blocks,
     lastIndex |-> r.lastIndex]

RECURSIVE LinesToBlocksOn(_, _)
\* the inner loop on the blocks pushed so far and the store
LinesToBlocksOn(lines, pushed) ==
    IF lines = <<>> THEN pushed
    ELSE LinesToBlocksOn(Tail(lines),
                         PushOn(pushed, lineToBlockOn(Head(lines), pushed.lastIndex)))

\* the body of the loop over parts: a code part is pushed without a scan
PartOn(part, pushed) ==
    IF part.isCode THEN [pushed EXCEPT !.blocks = @ \o PartToBlocks(part)]
    ELSE LinesToBlocksOn(Split(part.content, "\n"), pushed)

RECURSIVE PartsToBlocksOn(_, _)
PartsToBlocksOn(parts, pushed) ==
    IF parts = <<>> THEN pushed
    ELSE PartsToBlocksOn(Tail(parts), PartOn(Head(parts), pushed))

\* return blocks, with the store then and the argument then
ReturnBlocks(pushed, md) ==
    [result |-> pushed.blocks, lastIndex |-> pushed.lastIndex, argument |-> md]

\* a call of markdownToBlocks(md) on the store
markdownToBlocksOn(md, stored) ==
    ReturnBlocks(PartsToBlocksOn(parseCodeBlocks(md), [blocks |-> <<>>, lastIndex |-> stored]),
                 md)

\* no regular expression exists before the first call
InitPure ==
    /\ lastIndex = <<>>
    /\ history = <<>>
    /\ ScanIdle /\ ConvIdle /\ ClientIdle /\ IdIdle /\ ToolIdle

\* one call as the caller saw it: the argument given, what came back, and
\* the argument as the call left it
Called(fn, arg, out, left) == [fn |-> fn, input |-> arg, output |-> out, left |-> left]

CallParseInlineFormatting ==
    /\ Len(history) < MaxHistory
    /\ \E t \in PureTexts :
       \E call \in {parseInlineFormattingOn(t, lastIndex)} :
          /\ history' = Append(history,
                               Called("parseInlineFormatting", t, call.result, call.argument))
          /\ lastIndex' = call.lastIndex
    /\ UNCHANGED <<scanVars, convVars, clientVars, idVars, toolVars>>

CallMarkdownToBlocks ==
    /\ Len(history) < MaxHistory
    /\ \E d \in PureDocs :
       \E call \in {markdownToBlocksOn(d, lastIndex)} :
          /\ history' = Append(history,
                               Called("markdownToBlocks", d, call.result, call.argument))
          /\ lastIndex' = call.lastIndex
    /\ UNCHANGED <<scanVars, convVars, clientVars, idVars, toolVars>>

\* the renderers use no regular expression, and read the blocks given: no
\* statement of theirs assigns to a block, a payload or a run
CallBlocksToMarkdown ==
    /\ Len(history) < MaxHistory
    /\ \E bs \in PureBlocks :
          history' = Append(history, Called("blocksToMarkdown", bs, blocksToMarkdown(bs), bs))
    /\ UNCHANGED lastIndex
    /\ UNCHANGED <<scanVars, convVars, clientVars, idVars, toolVars>>

CallBlocksToPlainText ==
    /\ Len(history) < MaxHistory
    /\ \E bs \in PureBlocks :
          history' = Append(history, Called("blocksToPlainText", bs, blocksToPlainText(bs), bs))
    /\ UNCHANGED lastIndex
    /\ UNCHANGED <<scanVars, convVars, clientVars, idVars, toolVars>>

NextPure ==
    \/ CallParseInlineFormatting \/ CallMarkdownToBlocks
    \/ CallBlocksToMarkdown \/ CallBlocksToPlainText

SpecPure == InitPure /\ [][NextPure]_vars

\* every call of the history returned what the other calls of the same
\* function on an equal argument returned, and left its argument as given
EqualCallsAgree ==
    /\ \A i \in 1..Len(history), j \in 1..Len(history) :
          (history[i].fn = history[j].fn /\ history[i].input = history[j].input) =>
              history[i].output = history[j].output
    /\ \A i \in 1..Len(history) : history[i].left = history[i].input

\* a step leaves every regular expression that existed before it as it was
EarlierPatternsKept ==
    /\ Len(lastIndex') >= Len(lastIndex)
    /\ SubSeq(lastIndex', 1, Len(lastIndex)) = lastIndex

-----------------------------------------------------------------------------
(* formatWithDashes and extractNotionId *)

UpperCase == <<"A", "B", "C", "D", "E", "F", "G", "H", "I", "J", "K", "L", "M",
               "N", "O", "P", "Q", "R", "S", "T", "U", "V", "W", "X", "Y", "Z">>
LowerCase == <<"a", "b", "c", "d", "e", "f", "g", "h", "i", "j", "k", "l", "m",
               "n", "o", "p", "q", "r", "s", "t", "u", "v", "w", "x", "y", "z">>

\* s.toLowerCase()
ToLowerCase(s) ==
    [i \in 1..Len(s) |->
        IF \E k \in 1..26 : UpperCase[k] = s[i]
        THEN LowerCase[CHOOSE k \in 1..26 : UpperCase[k] = s[i]]
        ELSE s[i]]

\* the character class [a-f0-9], and the same under the i flag
HexLower == Digits \cup {"a", "b", "c", "d", "e", "f"}
HexAnyCase == HexLower \cup {"A", "B", "C", "D", "E", "F"}

IsNoDash(c) == c # "-"

\* the lengths of the five groups of an identifier
GroupLengths == <<8, 4, 4, 4, 12>>

\* '$1-$2-$3-$4-$5' for 32 characters
Dashed(h) ==
    SubSeq(h, 1, 8) \o <<"-">> \o SubSeq(h, 9, 12) \o <<"-">> \o SubSeq(h, 13, 16)
        \o <<"-">> \o SubSeq(h, 17, 20) \o <<"-">> \o SubSeq(h, 21, 32)

\* the 1-based indexes where 32 characters of class C start in s
HexRuns(s, C) == {p \in 1..(Len(s) - 31) : \A i \in p..(p + 31) : s[i] \in C}

\* formatWithDashes: lower case, dashes removed, then the first 32
\* hexadecimal digits in a row replaced by their dashed form
formatWithDashes(id) ==
    LET clean == SelectSeq(ToLowerCase(id), IsNoDash)
    IN  IF HexRuns(clean, HexLower) = {} THEN clean
        ELSE LET p == Min(HexRuns(clean, HexLower))
             IN  SubSeq(clean, 1, p - 1) \o Dashed(SubSeq(clean, p, p + 31))
                     \o SubSeq(clean, p + 32, Len(clean))

RECURSIVE MatchesGroups(_, _, _)
\* s is groups k..5 of hexadecimal digits, a dash after group j exactly
\* when dashes[j]
MatchesGroups(s, k, dashes) ==
    IF k > 5 THEN s = <<>>
    ELSE /\ Len(s) >= GroupLengths[k]
         /\ \A i \in 1..GroupLengths[k] : s[i] \in HexAnyCase
         /\ IF k < 5 /\ dashes[k]
            THEN /\ Len(s) > GroupLengths[k] /\ s[GroupLengths[k] + 1] = "-"
                 /\ MatchesGroups(SubSeq(s, GroupLengths[k] + 2, Len(s)), k + 1, dashes)
            ELSE MatchesGroups(SubSeq(s, GroupLengths[k] + 1, Len(s)), k + 1, dashes)

\* uuidPattern.test(s): every dash optional
UuidPattern(s) == \E dashes \in [1..4 -> BOOLEAN] : MatchesGroups(s, 1, dashes)

\* /^[a-f0-9]{32}$/i.test(s)
Hex32Pattern(s) == Len(s) = 32 /\ \A i \in 1..32 : s[i] \in HexAnyCase

\* urlWithTitlePattern: the indexes of a '/' or '-' followed by 32
\* hexadecimal digits and then '?', '#' or the end of the input
UrlWithTitleStarts(s) ==
    {p \in 1..(Len(s) - 32) :
        /\ s[p] \in {"/", "-"}
        /\ (p + 1) \in HexRuns(s, HexAnyCase)
        /\ (p + 32 = Len(s) \/ s[p + 33] \in {"?", "#"})}

\* urlPatternDashes: the indexes where a fully dashed identifier starts
UrlDashesStarts(s) ==
    {p \in 1..(Len(s) - 35) :
        MatchesGroups(SubSeq(s, p, p + 35), 1, [j \in 1..4 |-> TRUE])}

\* extractNotionId with the last pattern left out
extractNotionIdNoDashedUrl(id) ==
    IF UuidPattern(id) THEN formatWithDashes(id)
    ELSE IF Hex32Pattern(id) THEN formatWithDashes(id)
    ELSE IF UrlWithTitleStarts(id) # {}
    THEN formatWithDashes(SubSeq(id, Min(UrlWithTitleStarts(id)) + 1,
                                 Min(UrlWithTitleStarts(id)) + 32))
    ELSE id

extractNotionId(id) ==
    IF UuidPattern(id) THEN formatWithDashes(id)
    ELSE IF Hex32Pattern(id) THEN formatWithDashes(id)
    ELSE IF UrlWithTitleStarts(id) # {}
    THEN formatWithDashes(SubSeq(id, Min(UrlWithTitleStarts(id)) + 1,
                                 Min(UrlWithTitleStarts(id)) + 32))
    ELSE IF UrlDashesStarts(id) # {}
    THEN formatWithDashes(SubSeq(id, Min(UrlDashesStarts(id)),
                                 Min(UrlDashesStarts(id)) + 35))
    ELSE id

\* what comes before an identifier in the inputs
IdPrefixes ==
    {<<>>,
     <<"/">>,
     <<"-">>,
     <<"x">>,
     <<"h", "t", "t", "p", "s", ":", "/", "/", "n", ".", "s", "o", "/">>,
     <<"h", "t", "t", "p", "s", ":", "/", "/", "n", ".", "s", "o", "/", "T">>,
     <<"h", "t", "t", "p", "s", ":", "/", "/", "n", ".", "s", "o", "/", "T", "-">>}

\* the identifiers and near misses: 32 digits in lower and in mixed case,
\* fully dashed in lower and in upper case, with one dash, 31 digits, a
\* letter that is no digit, 33 digits, a name, nothing
IdCores ==
    {<<"1", "2", "3", "4", "5", "6", "7", "8", "9", "0", "a", "b", "c", "d", "e", "f", "1", "2", "3", "4", "5", "6", "7", "8", "9", "0", "a", "b", "c", "d", "e", "f">>,
     <<"A", "B", "C", "D", "E", "F", "1", "2", "3", "4", "5", "6", "7", "8", "9", "0", "a", "b", "c", "d", "e", "f", "1", "2", "3", "4", "5", "6", "7", "8", "9", "0">>,
     <<"1", "2", "3", "4", "5", "6", "7", "8", "-", "9", "0", "a", "b", "-", "c", "d", "e", "f", "-", "1", "2", "3", "4", "-", "5", "6", "7", "8", "9", "0", "a", "b", "c", "d", "e", "f">>,
     <<"A", "B", "C", "D", "E", "F", "1", "2", "-", "3", "4", "5", "6", "-", "7", "8", "9", "0", "-", "A", "B", "C", "D", "-", "E", "F", "1", "2", "3", "4", "5", "6", "7", "8", "9", "0">>,
     <<"1", "2", "3", "4", "5", "6", "7", "8", "-", "9", "0", "a", "b", "c", "d", "e", "f", "1", "2", "3", "4", "5", "6", "7", "8", "9", "0", "a", "b", "c", "d", "e", "f">>,
     <<"1", "2", "3", "4", "5", "6", "7", "8", "9", "0", "a", "b", "c", "d", "e", "f", "1", "2", "3", "4", "5", "6", "7", "8", "9", "0", "a", "b", "c", "d", "e">>,
     <<"1", "2", "3", "4", "5", "6", "7", "8", "9", "0", "a", "b", "c", "d", "e", "g", "1", "2", "3", "4", "5", "6", "7", "8", "9", "0", "a", "b", "c", "d", "e", "f">>,
     <<"1", "2", "3", "4", "5", "6", "7", "8", "9", "0", "a", "b", "c", "d", "e", "f", "1", "2", "3", "4", "5", "6", "7", "8", "9", "0", "a", "b", "c", "d", "e", "f", "0">>,
     <<"p", "a", "g", "e", "-", "1", "2", "3">>,
     <<>>}

\* what comes after it
IdSuffixes ==
    {<<>>,
     <<"?", "v", "=", "1">>,
     <<"#", "h">>,
     <<"/">>,
     <<"x">>}

IdInputs == {p \o c \o x : p \in IdPrefixes, c \in IdCores, x \in IdSuffixes}

InitId ==
    /\ input \in IdInputs
    /\ extracted = <<>>
    /\ again = <<>>
    /\ idPc = "input"
    /\ ScanIdle /\ ConvIdle /\ ClientIdle /\ PureIdle /\ ToolIdle

\* extracted = extractNotionId(input)
ExtractNotionId ==
    /\ idPc = "input"
    /\ extracted' = extractNotionId(input)
    /\ idPc' = "extracted"
    /\ UNCHANGED <<input, again>>
    /\ UNCHANGED <<scanVars, convVars, clientVars, pureVars, toolVars>>

\* again = extractNotionId(extracted)
ExtractAgain ==
    /\ idPc = "extracted"
    /\ again' = extractNotionId(extracted)
    /\ idPc' = "again"
    /\ UNCHANGED <<input, extracted>>
    /\ UNCHANGED <<scanVars, convVars, clientVars, pureVars, toolVars>>

NextId == ExtractNotionId \/ ExtractAgain

SpecId == InitId /\ [][NextId]_vars

-----------------------------------------------------------------------------
(* Claims about extractNotionId, checked under SpecId *)

IsHexDigit(c) ==
    c \in {"0", "1", "2", "3", "4", "5", "6", "7", "8", "9",
           "a", "b", "c", "d", "e", "f", "A", "B", "C", "D", "E", "F"}

LowerHex(c) ==
    IF c = "A" THEN "a" ELSE IF c = "B" THEN "b" ELSE IF c = "C" THEN "c"
    ELSE IF c = "D" THEN "d" ELSE IF c = "E" THEN "e" ELSE IF c = "F" THEN "f"
    ELSE c

\* the characters of s that are no dashes
Undashed(s) == SelectSeq(s, IsNoDash)

\* the lower-case 8-4-4-4-12 form of 32 hexadecimal digits
CanonicalId(h) ==
    [i \in 1..36 |->
        IF i \in {9, 14, 19, 24} THEN "-"
        ELSE LowerHex(h[i - Cardinality({j \in {9, 14, 19, 24} : j < i})])]

\* s is 32 hexadecimal digits in any letter case, with no dash or with one
\* dash at some or all of the four group boundaries
IsIdentifier(s) ==
    /\ Len(Undashed(s)) = 32
    /\ \A i \in 1..Len(s) : s[i] # "-" => IsHexDigit(s[i])
    /\ \A i \in 1..Len(s) :
          s[i] = "-" =>
              /\ Len(Undashed(SubSeq(s, 1, i))) \in {8, 12, 16, 20}
              /\ i > 1 /\ s[i - 1] # "-"

\* s is an identifier with all four dashes
IsDashedIdentifier(s) == IsIdentifier(s) /\ Len(s) = 36

Https == <<"h", "t", "t", "p", "s", ":", "/", "/">>

\* the part of a URL before its query and fragment
PathOf(s) ==
    LET stops == {i \in 1..Len(s) : s[i] \in {"?", "#"}}
    IN  IF stops = {} THEN s ELSE SubSeq(s, 1, Min(stops) - 1)

\* the identifier the path of s ends with: the four-dash form, or 32 digits
\* after a character that is no digit; the empty string when there is none
PathId(s) ==
    LET path == PathOf(s)
        n == Len(path)
    IN  IF n >= 36 /\ IsDashedIdentifier(SubSeq(path, n - 35, n))
        THEN Undashed(SubSeq(path, n - 35, n))
        ELSE IF /\ n >= 33 /\ \A i \in (n - 31)..n : IsHexDigit(path[i])
                /\ ~IsHexDigit(path[n - 32])
        THEN SubSeq(path, n - 31, n)
        ELSE <<>>

\* s is a URL whose path ends with an identifier
IsUrlEndingWithId(s) ==
    Len(s) > 8 /\ SubSeq(s, 1, 8) = Https /\ PathId(s) # <<>>

\* C20 as stated: extractNotionId returns the lower-case dashed form for an
\* identifier and for a URL whose path ends with one, every other input
\* unchanged, and applying it again changes nothing.  Refuted by inputs that
\* are neither ('x' before a dashed identifier, '-' before 32 digits), from
\* which an identifier is extracted all the same, and by a URL whose path
\* ends with 32 digits that follow a letter, which is returned unchanged.
C20_IdsAndUrlsOnly ==
    idPc \in {"extracted", "again"} =>
        /\ IsIdentifier(input) => extracted = CanonicalId(Undashed(input))
        /\ (~IsIdentifier(input) /\ IsUrlEndingWithId(input)) =>
              extracted = CanonicalId(PathId(input))
        /\ (~IsIdentifier(input) /\ ~IsUrlEndingWithId(input)) => extracted = input
        /\ idPc = "again" => again = extracted

\* the places of s where a '/' or '-' is followed by exactly 32 digits and
\* then by '?', '#' or the end of s
DelimitedIds(s) ==
    {p \in 1..Len(s) :
        /\ s[p] = "/" \/ s[p] = "-"
        /\ p + 32 <= Len(s)
        /\ \A i \in (p + 1)..(p + 32) : IsHexDigit(s[i])
        /\ (p + 32 < Len(s)) => (s[p + 33] = "?" \/ s[p + 33] = "#")}

\* the places of s where an identifier with all four dashes starts
DashedIds(s) ==
    {p \in 1..Len(s) : p + 35 <= Len(s) /\ IsDashedIdentifier(SubSeq(s, p, p + 35))}

\* the digits of the identifier extractNotionId reads from s, or the empty
\* string: s itself, else the first delimited 32 digits, else the first
\* identifier with all four dashes
IdRead(s) ==
    IF IsIdentifier(s) THEN Undashed(s)
    ELSE IF DelimitedIds(s) # {}
    THEN SubSeq(s, Min(DelimitedIds(s)) + 1, Min(DelimitedIds(s)) + 32)
    ELSE IF DashedIds(s) # {}
    THEN Undashed(SubSeq(s, Min(DashedIds(s)), Min(DashedIds(s)) + 35))
    ELSE <<>>

\* C20 amended: extractNotionId returns the lower-case dashed form of the
\* input when it is an identifier (dashes optional at each group boundary),
\* else of the first 32 digits that follow a '/' or '-' and are followed by
\* '?', '#' or the end of the input, else of the first fully dashed
\* identifier anywhere in the input, whether or not the input is a URL;
\* every other input is returned unchanged; and it is idempotent.
C20_FirstIdentifierFound ==
    idPc \in {"extracted", "again"} =>
        /\ extracted = IF IdRead(input) # <<>> THEN CanonicalId(IdRead(input)) ELSE input
        /\ idPc = "again" => again = extracted

\* C20 witness: a URL with a title, an identifier in mixed case and a query
\* gave the dashed lower-case identifier, and so did a second application
C20_Witness ==
    /\ idPc = "again"
    /\ Len(input) > 8 /\ SubSeq(input, 1, 8) = Https
    /\ \E i \in 1..Len(input) : input[i] = "?"
    /\ \E i \in 1..Len(input) : input[i] = "A"
    /\ ~IsIdentifier(input)
    /\ Len(extracted) = 36 /\ extracted[1] = "a" /\ extracted[9] = "-"
    /\ again = extracted

-----------------------------------------------------------------------------
(* The block tools: appendBlocks *)

\* a tool result with success: false
Failure(message) == [success |-> FALSE, error |-> message, blocks |-> <<>>, block_count |-> 0]

\* the result of appendBlocks with success: true
Appended(results) ==
    [success |-> TRUE, error |-> "", blocks |-> results, block_count |-> Len(results)]

\* ErrorOr without the fallback
ErrorOrNothing(response, fallback) == response.error

\* response.error || fallback
ErrorOr(response, fallback) ==
    IF response.hasError /\ response.error # "" THEN response.error ELSE fallback

\* client.patch(endpoint, body) as the client receives it
PatchRequest(endpoint, body) == [method |-> "PATCH", endpoint |-> endpoint, body |-> body]

\* `/blocks/${parentId}/children`
ChildrenEndpoint(parentId) == <<"/", "b", "l", "o", "c", "k", "s", "/">> \o parentId \o <<"/", "c", "h", "i", "l", "d", "r", "e", "n">>

\* appendBlocks up to its await, without the test of blocks.length
appendBlocksStartUnchecked(p) ==
    [returned |-> FALSE,
     result |-> Failure(""),
     request |-> <<PatchRequest(ChildrenEndpoint(extractNotionId(p.parent_id)),
                                [children |-> markdownToBlocks(p.content)])>>]

\* appendBlocks up to its await: it has returned, or it has called patch
appendBlocksStart(p) ==
    IF Len(markdownToBlocks(p.content)) = 0
    THEN [returned |-> TRUE,
          result |-> Failure("No valid content to append"),
          request |-> <<>>]
    ELSE [returned |-> FALSE,
          result |-> Failure(""),
          request |-> <<PatchRequest(ChildrenEndpoint(extractNotionId(p.parent_id)),
                                     [children |-> markdownToBlocks(p.content)])>>]

\* appendBlocks after its await, for the response of the client
appendBlocksEnd(response) ==
    IF ~response.success \/ ~response.hasData
    THEN Failure(ErrorOr(response, "Failed to append blocks"))
    ELSE Appended(response.results)

\* params.parent_id: a name, 32 digits in both letter cases, a URL
ToolIds ==
    {<<"p", "a", "g", "e", "-", "1", "2", "3">>,
     <<"1", "2", "3", "4", "5", "6", "7", "8", "9", "0", "a", "b", "c", "d", "e", "f", "1", "2", "3", "4", "5", "6", "7", "8", "9", "0", "A", "B", "C", "D", "E", "F">>,
     <<"h", "t", "t", "p", "s", ":", "/", "/", "n", ".", "s", "o", "/", "T", "-", "1", "2", "3", "4", "5", "6", "7", "8", "9", "0", "a", "b", "c", "d", "e", "f", "1", "2", "3", "4", "5", "6", "7", "8", "9", "0", "a", "b", "c", "d", "e", "f", "?", "v", "=", "1">>}

\* params.content: four that convert to no block, six that convert to some
ToolContents ==
    {<<>>,
     <<" ">>,
     <<" ", "\n", "\t">>,
     <<Tick, Tick, Tick>>,
     <<"a">>,
     <<"#", " ", "a">>,
     <<"-", "-", "-">>,
     <<"-", " ", "a", "\n", "b">>,
     <<"\n", "a", "\n">>,
     <<Tick, Tick, Tick, "\n", "a">>}

\* the blocks of a PaginatedResponse, as { id, type }
ToolResults ==
    {<<>>,
     <<[id |-> "b1", type |-> "paragraph"]>>,
     <<[id |-> "b1", type |-> "paragraph"], [id |-> "b2", type |-> "divider"]>>}

\* what the client may answer: data, no data, an error with a message, with
\* an empty message or with none
ToolResponses ==
    {[success |-> TRUE, hasData |-> TRUE, results |-> r, hasError |-> FALSE, error |-> ""] :
        r \in ToolResults}
    \cup {[success |-> TRUE, hasData |-> FALSE, results |-> <<>>, hasError |-> FALSE, error |-> ""]}
    \cup {[success |-> FALSE, hasData |-> FALSE, results |-> <<>>, hasError |-> h, error |-> e] :
             h \in BOOLEAN, e \in {"", "Could not find block"}}

NoResult == Failure("")

\* the local variables of a tool before its first statement
NoLocals == [allBlocks |-> <<>>, cursor |-> <<>>, hasMore |-> TRUE, blockType |-> ""]

InitTools ==
    /\ tool = "appendBlocks"
    /\ params \in [parent_id : ToolIds, content : ToolContents]
    /\ requests = <<>>
    /\ responses = <<>>
    /\ toolResult = NoResult
    /\ locals = NoLocals
    /\ toolPc = "call"
    /\ ScanIdle /\ ConvIdle /\ ClientIdle /\ PureIdle /\ IdIdle

\* appendBlocks(client, params) runs to its return or to its await
AppendBlocksCall ==
    /\ tool = "appendBlocks" /\ toolPc = "call"
    /\ requests' = requests \o appendBlocksStart(params).request
    /\ toolResult' = appendBlocksStart(params).result
    /\ toolPc' = IF appendBlocksStart(params).returned THEN "returned" ELSE "awaiting"
    /\ UNCHANGED <<params, tool, locals, responses>>
    /\ UNCHANGED <<scanVars, convVars, clientVars, pureVars, idVars>>

\* the client answers and appendBlocks returns
AppendBlocksReturn ==
    /\ tool = "appendBlocks" /\ toolPc = "awaiting"
    /\ \E response \in ToolResponses :
          /\ responses' = Append(responses, response)
          /\ toolResult' = appendBlocksEnd(response)
    /\ toolPc' = "returned"
    /\ UNCHANGED <<params, requests, tool, locals>>
    /\ UNCHANGED <<scanVars, convVars, clientVars, pureVars, idVars>>

NextTools == AppendBlocksCall \/ AppendBlocksReturn

SpecTools == InitTools /\ [][NextTools]_vars

\* the content has no line that gives a block
ConvertsToNothing(content) == Len(markdownToBlocks(content)) = 0

\* the content is empty or holds only whitespace
IsBlank(content) == \A i \in 1..Len(content) : content[i] \in {" ", "\t", "\n", "\r"}

\* C19: appendBlocks called with content that converts to zero blocks
\* returns success false with the error 'No valid content to append' and
\* gives the client no request; empty and blank-only content are such
\* content.
C19_NoContentNoRequest ==
    /\ IsBlank(params.content) => ConvertsToNothing(params.content)
    /\ (toolPc # "call" /\ ConvertsToNothing(params.content)) =>
          /\ toolPc = "returned"
          /\ ~toolResult.success
          /\ toolResult.error = "No valid content to append"
          /\ requests = <<>>

\* C19 witness: appendBlocks returned for a content of blanks and a line
\* break, with no request made
C19_Witness ==
    /\ toolPc = "returned"
    /\ Len(params.content) = 3 /\ IsBlank(params.content)
    /\ ~toolResult.success /\ requests = <<>>

-----------------------------------------------------------------------------
(* Claims about the steps of parseInlineFormatting, checked under SpecScan *)

\* the first match of the construct delimited by d in s, as 1-based indexes:
\* the leftmost opening delimiter that has a closing one after one or more
\* characters of the same line, and the nearest such closing delimiter
DelimitedPairs(s, d) ==
    {pr \in (1..Len(s)) \X (1..Len(s)) :
        /\ pr[2] >= pr[1] + Len(d) + 1 /\ pr[2] + Len(d) - 1 <= Len(s)
        /\ SubSeq(s, pr[1], pr[1] + Len(d) - 1) = d
        /\ SubSeq(s, pr[2], pr[2] + Len(d) - 1) = d
        /\ \A k \in (pr[1] + Len(d))..(pr[2] - 1) : s[k] \notin LineTerminators}

NoConstructFound == [found |-> FALSE, start |-> 0, stop |-> 0, run |-> <<>>]

FirstDelimited(s, d, annotation) ==
    IF DelimitedPairs(s, d) = {} THEN NoConstructFound
    ELSE LET open == Min({pr[1] : pr \in DelimitedPairs(s, d)})
             close == Min({pr[2] : pr \in {q \in DelimitedPairs(s, d) : q[1] = open}})
         IN  [found |-> TRUE, start |-> open, stop |-> close + Len(d) - 1,
              run |-> <<[content |-> SubSeq(s, open + Len(d), close - 1),
                         annotations |-> {annotation}, link |-> <<>>]>>]

\* '[' text ']' '(' url ')' as the indexes of '[', ']' and ')'
LinkTriples(s) ==
    {tr \in (1..Len(s)) \X (1..Len(s)) \X (1..Len(s)) :
        /\ tr[2] >= tr[1] + 2 /\ tr[3] >= tr[2] + 3
        /\ s[tr[1]] = "[" /\ s[tr[2]] = "]" /\ s[tr[2] + 1] = "(" /\ s[tr[3]] = ")"
        /\ \A k \in (tr[1] + 1)..(tr[2] - 1) : s[k] # "]"
        /\ \A k \in (tr[2] + 2)..(tr[3] - 1) : s[k] # ")"}

FirstLink(s) ==
    IF LinkTriples(s) = {} THEN NoConstructFound
    ELSE LET tr == CHOOSE t \in LinkTriples(s) : \A u \in LinkTriples(s) : t[1] <= u[1]
         IN  [found |-> TRUE, start |-> tr[1], stop |-> tr[3],
              run |-> <<[content |-> SubSeq(s, tr[1] + 1, tr[2] - 1),
                         annotations |-> {}, link |-> SubSeq(s, tr[2] + 2, tr[3] - 1)]>>]

\* the first matches of the five constructs, in the fixed order
FirstMatches(s) ==
    <<FirstDelimited(s, <<"*", "*">>, "bold"),
      FirstDelimited(s, <<"*">>, "italic"),
      FirstDelimited(s, <<"~", "~">>, "strikethrough"),
      FirstDelimited(s, <<Tick>>, "code"),
      FirstLink(s)>>

\* the construct selected: the smallest start, and on a tie the first in
\* the fixed order
SelectedConstruct(s) ==
    LET found == {k \in 1..5 : FirstMatches(s)[k].found}
        k == CHOOSE a \in found :
                \A b \in found :
                    \/ FirstMatches(s)[a].start < FirstMatches(s)[b].start
                    \/ (FirstMatches(s)[a].start = FirstMatches(s)[b].start /\ a <= b)
    IN  FirstMatches(s)[k]

\* C22: a step of the scanner on a remaining text that holds a construct
\* selects, among the first matches of the five constructs, the one that
\* starts first (bold, italic, strikethrough, code, link breaking ties in
\* that order), appends the text before it as a plain run (when there is
\* any) and then the matched run, and goes on from just after the match.
C22_EarliestConstructSelected ==
    [][(scanPc = "loop" /\ \E k \in 1..5 : FirstMatches(remaining)[k].found) =>
          LET c == SelectedConstruct(remaining)
          IN  /\ remaining' = SubSeq(remaining, c.stop + 1, Len(remaining))
              /\ result' = result
                    \o (IF c.start > 1
                        THEN <<[content |-> SubSeq(remaining, 1, c.start - 1),
                                annotations |-> {}, link |-> <<>>]>>
                        ELSE <<>>)
                    \o c.run
              /\ scanPc' = "loop"]_vars

\* C22 witness: bold and italic both matched at the start of the text, the
\* step emitted the bold run and the scan goes on after it
C22_Witness ==
    /\ scanPc = "loop" /\ Len(text) = 6 /\ Len(remaining) = 1
    /\ FirstMatches(text)[1].found /\ FirstMatches(text)[2].found
    /\ FirstMatches(text)[1].start = FirstMatches(text)[2].start
    /\ Len(result) = 1 /\ result[1].annotations = {"bold"}

\* the text not yet turned into runs
Unscanned == IF scanPc = "loop" THEN remaining ELSE <<>>

\* C24: every run carries at most one of the four annotations, a run with
\* a link carries none, and the runs are the input cut into pieces: each
\* matched run holds the text between its construct's delimiters as it
\* stands in the input, markup characters included.
C24_OneAnnotationVerbatim ==
    /\ \A i \in 1..Len(result) :
          /\ result[i].annotations \subseteq {"bold", "italic", "strikethrough", "code"}
          /\ Cardinality(result[i].annotations) <= 1
          /\ result[i].link # <<>> => result[i].annotations = {}
    /\ Sources(result) \o Unscanned = text

\* C24 witness: a code run whose content is a whole italic construct,
\* returned as one run
C24_Witness ==
    /\ scanPc = "done" /\ Len(result) = 1
    /\ result[1].annotations = {"code"}
    /\ FirstDelimited(result[1].content, <<"*">>, "italic").found

\* the matched runs of a result
MatchedRuns(runs) == {i \in 1..Len(runs) : ~IsPlain(runs[i])}

\* an iteration with a match cuts three characters or more and stays in the
\* loop, one without leaves it
ShortensOrLeaves ==
    scanPc = "loop" /\ remaining # <<>> =>
        IF \E k \in 1..5 : FirstMatches(remaining)[k].found
        THEN Len(remaining') + 3 <= Len(remaining) /\ scanPc' = "loop"
        ELSE scanPc' = "return"

\* every match so far has used up three characters or more of the input
MatchesBounded ==
    3 * Cardinality(MatchedRuns(result)) + Len(Unscanned) <= Len(text)

\* C30: an iteration that finds a match shortens the remaining text by
\* three characters or more, one that finds none leaves the loop, so three
\* times the number of matches never exceeds the length of the input, and
\* the call returns.
C30_Terminates ==
    /\ [][ShortensOrLeaves]_vars
    /\ []MatchesBounded
    /\ <>(scanPc = "done")

\* the two safety parts of C30, for the inputs of SpecScan
ShortensOrLeavesAlways == [][ShortensOrLeaves]_vars /\ []MatchesBounded

\* C30 witness: a call that returned after two matching iterations
C30_Witness ==
    /\ scanPc = "done" /\ Len(text) = 6
    /\ Cardinality(MatchedRuns(result)) = 2

-----------------------------------------------------------------------------
(* Claims about the fence flag and the prose lines, checked under SpecConv *)

\* the splitter's inCodeBlock flag after the first k lines of m
InFenceAfter(m, k) == FenceLoop(FenceStart, SubSeq(LinesOf(m), 1, k)).inCodeBlock

\* line k of m changes the flag
Toggles(m, k) == InFenceAfter(m, k) # InFenceAfter(m, k - 1)

\* C23: a line toggles the inside-fence flag exactly when its trimmed
\* content begins with three backticks, whatever follows them and whatever
\* the flag is.
C23_TrimmedMarkersToggle ==
    convPc # "markdown" =>
        \A k \in 1..Len(LinesOf(markdown)) :
            Toggles(markdown, k) <=> IsMarkerLine(Trim(LinesOf(markdown)[k]))

\* the same with the line as it stands, leading white space included
MarkersToggleUntrimmed ==
    convPc # "markdown" =>
        \A k \in 1..Len(LinesOf(markdown)) :
            Toggles(markdown, k) <=> IsMarkerLine(LinesOf(markdown)[k])

\* a marker line inside a fence closes it
ClosedByMarkerInside ==
    /\ convPc # "markdown" /\ Len(LinesOf(markdown)) = 4
    /\ MarkerIndexes(markdown) = {1, 3, 4}
    /\ LinesOf(markdown)[3] # Fence
    /\ InFenceAfter(markdown, 2) /\ ~InFenceAfter(markdown, 3) /\ InFenceAfter(markdown, 4)

\* the prose lines of m that are not blank, in source order
NonBlankProse(m) ==
    Ascending({i \in ProseIndexes(m) : Trim(LinesOf(m)[i]) # <<>>})

IsNoCode(b) == b.type # "code"

Padded(line) == <<" ">> \o line \o <<" ", " ">>

\* C26: the blocks that come from prose are one for each prose line whose
\* trimmed content is not empty, in source line order, none for a blank
\* line, and each is the block of the trimmed line alone: white space
\* around the line changes nothing.
C26_OneBlockPerProseLine ==
    convPc = "blocks" =>
        /\ SelectSeq(blocks, IsNoCode) =
              [k \in 1..Len(NonBlankProse(markdown)) |->
                  lineToBlock(Trim(LinesOf(markdown)[NonBlankProse(markdown)[k]]))]
        /\ \A i \in ProseIndexes(markdown) :
              /\ lineToBlock(Padded(LinesOf(markdown)[i])) = lineToBlock(LinesOf(markdown)[i])
              /\ lineToBlock(Trim(LinesOf(markdown)[i])) = lineToBlock(LinesOf(markdown)[i])
              /\ Trim(LinesOf(markdown)[i]) = <<>> <=> lineToBlock(LinesOf(markdown)[i]) = NullBlock

\* C26 witness: four prose lines, one of them blank, gave three blocks of
\* different types
C26_Witness ==
    /\ convPc = "blocks" /\ Len(LinesOf(markdown)) = 4
    /\ MarkerIndexes(markdown) = {}
    /\ LinesOf(markdown)[2] = <<>>
    /\ Len(blocks) = 3
    /\ blocks[1].type = "bulleted_list_item" /\ blocks[2].type = "paragraph"
    /\ blocks[3].type = "numbered_list_item"

\* C27: every block other than a divider has, under its type, an object
\* with a rich_text array; the array is never empty, so in particular it is
\* not empty for a line that is a marker with nothing after it.
C27_RichTextPresent ==
    convPc = "blocks" =>
        \A i \in 1..Len(blocks) :
            blocks[i].type # "divider" =>
                /\ blocks[i].payload.kind = "object"
                /\ blocks[i].payload.rich_text.kind = "array"
                /\ blocks[i].payload.rich_text.runs # <<>>

\* C27 witness: a '#' followed by white space alone, a heading marker with
\* zero trailing content, gave a paragraph holding the '#'
C27_Witness ==
    /\ convPc = "blocks" /\ OneLine(markdown)
    /\ Trim(markdown) = <<"#">> /\ markdown # Trim(markdown)
    /\ Len(blocks) = 1 /\ blocks[1].type = "paragraph"
    /\ blocks[1].payload.rich_text.runs = <<[content |-> <<"#">>, annotations |-> {}, link |-> <<>>]>>

-----------------------------------------------------------------------------
(* Claim about richTextToMarkdown, checked under SpecRuns *)

\* what is written before and after a run's content, outermost first
Opening(run) ==
    (IF run.link # <<>> THEN <<"[">> ELSE <<>>)
    \o (IF "strikethrough" \in run.annotations THEN <<"~", "~">> ELSE <<>>)
    \o (IF "italic" \in run.annotations THEN <<"*">> ELSE <<>>)
    \o (IF "bold" \in run.annotations THEN <<"*", "*">> ELSE <<>>)
    \o (IF "code" \in run.annotations THEN <<Tick>> ELSE <<>>)

Closing(run) ==
    (IF "code" \in run.annotations THEN <<Tick>> ELSE <<>>)
    \o (IF "bold" \in run.annotations THEN <<"*", "*">> ELSE <<>>)
    \o (IF "italic" \in run.annotations THEN <<"*">> ELSE <<>>)
    \o (IF "strikethrough" \in run.annotations THEN <<"~", "~">> ELSE <<>>)
    \o (IF run.link # <<>> THEN <<"]", "(">> \o run.link \o <<")">> ELSE <<>>)

RECURSIVE Nested(_)
\* the runs, each between its opening and its closing, one after the other
Nested(runs) ==
    IF runs = <<>> THEN <<>>
    ELSE Opening(Head(runs)) \o Head(runs).content \o Closing(Head(runs)) \o Nested(Tail(runs))

\* C25: a run is written with its content innermost, then backticks if
\* code, '**' if bold, '*' if italic, '~~' if strikethrough, and
\* '[...](url)' outermost if it has a link; the runs follow each other with
\* nothing between them.
C25_NestingOrder ==
    (convPc = "rendered" /\ Len(blocks) = 1 /\ blocks[1].type = "paragraph"
        /\ blocks[1].payload.kind = "object" /\ blocks[1].payload.rich_text.kind = "array") =>
        rendered = Returned(Nested(blocks[1].payload.rich_text.runs))

\* C25 witness: a run with the four annotations and a link, followed by a
\* bold run, rendered as [~~***`a`***~~](u)**a**
C25_Witness ==
    /\ convPc = "rendered" /\ Len(blocks) = 1
    /\ Len(blocks[1].payload.rich_text.runs) = 2
    /\ blocks[1].payload.rich_text.runs[1] = FullRun
    /\ blocks[1].payload.rich_text.runs[2].annotations = {"bold"}
    /\ blocks[1].payload.rich_text.runs[2].link = <<>>
    /\ rendered = Returned(<<"[", "~", "~", "*", "*", "*", Tick, "a", Tick, "*", "*", "*",
                             "~", "~", "]", "(", "u", ")", "*", "*", "a", "*", "*">>)

-----------------------------------------------------------------------------
(* The tool operations and the requests they give the client *)

\* client.get(endpoint), client.post(endpoint, body), client.delete(endpoint);
\* of the bodies only those of the two block tools are modelled
NoBody == <<>>
GetRequest(endpoint) == [method |-> "GET", endpoint |-> endpoint, body |-> NoBody]
PostRequest(endpoint) == [method |-> "POST", endpoint |-> endpoint, body |-> NoBody]
DeleteRequest(endpoint) == [method |-> "DELETE", endpoint |-> endpoint, body |-> NoBody]

DecimalDigits == <<"0", "1", "2", "3", "4", "5", "6", "7", "8", "9">>

RECURSIVE Decimal(_)
\* `${n}` for a natural number
Decimal(n) ==
    IF n < 10 THEN <<DecimalDigits[n + 1]>>
    ELSE Decimal(n \div 10) \o <<DecimalDigits[(n % 10) + 1]>>

\* Math.min(Math.max(page_size, 1), 100)
ClampPageSize(n) == IF n < 1 THEN 1 ELSE IF n > 100 THEN 100 ELSE n

\* a result with success: false and an error, and one with success: true
\* and the value the tool builds from the data
Failed(message) == [success |-> FALSE, error |-> message, hasValue |-> FALSE, value |-> <<>>]
Succeeded(value) == [success |-> TRUE, error |-> "", hasValue |-> TRUE, value |-> value]

\* each tool that makes one request: the request, the error it returns when
\* the response has none, whether it needs response.data, and for
\* deleteBlock the id it returns
search(p) ==
    [request |-> PostRequest(<<"/", "s", "e", "a", "r", "c", "h">>),
     fallback |-> "Failed to search", needsData |-> TRUE, deleted_id |-> <<>>]

getPage(p) ==
    [request |-> GetRequest(<<"/", "p", "a", "g", "e", "s", "/">> \o extractNotionId(p.page_id)),
     fallback |-> "Failed to get page", needsData |-> TRUE, deleted_id |-> <<>>]

createPage(p) ==
    [request |-> PostRequest(<<"/", "p", "a", "g", "e", "s">>),
     fallback |-> "Failed to create page", needsData |-> TRUE, deleted_id |-> <<>>]

updatePage(p) ==
    [request |-> PatchRequest(<<"/", "p", "a", "g", "e", "s", "/">> \o extractNotionId(p.page_id), NoBody),
     fallback |-> "Failed to update page", needsData |-> TRUE, deleted_id |-> <<>>]

getDatabase(p) ==
    [request |-> GetRequest(<<"/", "d", "a", "t", "a", "b", "a", "s", "e", "s", "/">> \o extractNotionId(p.database_id)),
     fallback |-> "Failed to get database", needsData |-> TRUE, deleted_id |-> <<>>]

queryDatabase(p) ==
    [request |-> PostRequest(<<"/", "d", "a", "t", "a", "b", "a", "s", "e", "s", "/">> \o extractNotionId(p.database_id) \o <<"/", "q", "u", "e", "r", "y">>),
     fallback |-> "Failed to query database", needsData |-> TRUE, deleted_id |-> <<>>]

createDatabase(p) ==
    [request |-> PostRequest(<<"/", "d", "a", "t", "a", "b", "a", "s", "e", "s">>),
     fallback |-> "Failed to create database", needsData |-> TRUE, deleted_id |-> <<>>]

listUsers(p) ==
    [request |-> GetRequest(<<"/", "u", "s", "e", "r", "s", "?", "p", "a", "g", "e", "_", "s", "i", "z", "e", "=">> \o Decimal(ClampPageSize(p.page_size))),
     fallback |-> "Failed to list users", needsData |-> TRUE, deleted_id |-> <<>>]

getUser(p) ==
    [request |-> GetRequest(<<"/", "u", "s", "e", "r", "s", "/">> \o extractNotionId(p.user_id)),
     fallback |-> "Failed to get user", needsData |-> TRUE, deleted_id |-> <<>>]

deleteBlock(p) ==
    LET blockId == extractNotionId(p.block_id)
    IN  [request |-> DeleteRequest(<<"/", "b", "l", "o", "c", "k", "s", "/">> \o blockId),
         fallback |-> "Failed to delete block", needsData |-> FALSE,
         deleted_id |-> blockId]

SingleRequestOperations ==
    {"search", "getPage", "createPage", "updatePage", "getDatabase", "queryDatabase",
     "createDatabase", "listUsers", "getUser", "deleteBlock"}

\* the tool of a name
Operation(op, p) ==
    CASE op = "search" -> search(p)
      [] op = "getPage" -> getPage(p)
      [] op = "createPage" -> createPage(p)
      [] op = "updatePage" -> updatePage(p)
      [] op = "getDatabase" -> getDatabase(p)
      [] op = "queryDatabase" -> queryDatabase(p)
      [] op = "createDatabase" -> createDatabase(p)
      [] op = "listUsers" -> listUsers(p)
      [] op = "getUser" -> getUser(p)
      [] op = "deleteBlock" -> deleteBlock(p)

\* the tool after its await: the test of the response and the two returns
OperationEnd(op, p, response) ==
    LET called == Operation(op, p)
    IN  IF ~response.success \/ (called.needsData /\ ~response.hasData)
        THEN Failed(ErrorOr(response, called.fallback))
        ELSE Succeeded(IF called.needsData THEN response.data ELSE called.deleted_id)

-----------------------------------------------------------------------------
(* getPageContent *)

\* the number of answers a call of getPageContent is followed for
MaxPages == 3

\* the endpoint of one fetch, with or without start_cursor
ContentEndpoint(pageId, cursor) ==
    IF cursor # <<>>
    THEN <<"/", "b", "l", "o", "c", "k", "s", "/">> \o pageId \o <<"/", "c", "h", "i", "l", "d", "r", "e", "n", "?", "s", "t", "a", "r", "t", "_", "c", "u", "r", "s", "o", "r", "=">> \o cursor \o <<"&", "p", "a", "g", "e", "_", "s", "i", "z", "e", "=", "1", "0", "0">>
    ELSE <<"/", "b", "l", "o", "c", "k", "s", "/">> \o pageId \o <<"/", "c", "h", "i", "l", "d", "r", "e", "n", "?", "p", "a", "g", "e", "_", "s", "i", "z", "e", "=", "1", "0", "0">>

\* the results of getPageContent
ContentFailure(message) ==
    [success |-> FALSE, error |-> message, hasContent |-> FALSE,
     content |-> <<>>, format |-> "", block_count |-> 0]
ContentReturned(content, format, count) ==
    [success |-> TRUE, error |-> "", hasContent |-> TRUE,
     content |-> content, format |-> format, block_count |-> count]

\* const { format = 'markdown' } = params
FormatOf(p) == IF p.format = "undefined" THEN "markdown" ELSE p.format

\* the switch on format: the content, or the exception of the renderer,
\* which getPageContent does not catch
ContentOf(format, allBlocks) ==
    CASE format = "blocks" -> Returned(allBlocks)
      [] format = "plain_text" -> blocksToPlainText(allBlocks)
      [] OTHER -> blocksToMarkdown(allBlocks)

\* getPageContent up to its first await
getPageContentStart(p) ==
    [locals |-> NoLocals,
     request |-> <<GetRequest(ContentEndpoint(extractNotionId(p.page_id), <<>>))>>]

\* getPageContentFetched building the next endpoint before it updates cursor
getPageContentFetchedStaleCursor(p, l, response) ==
    IF ~response.success \/ ~response.hasData
    THEN [returned |-> TRUE, threw |-> FALSE,
          result |-> ContentFailure(ErrorOr(response, "Failed to get page content")),
          locals |-> l, request |-> <<>>]
    ELSE LET after == [l EXCEPT !.allBlocks = @ \o response.results,
                                !.hasMore = response.has_more,
                                !.cursor = response.next_cursor]
         IN  IF after.hasMore
             THEN [returned |-> FALSE, threw |-> FALSE, result |-> NoResult,
                   locals |-> after,
                   request |-> <<GetRequest(ContentEndpoint(extractNotionId(p.page_id),
                                                            l.cursor))>>]
             ELSE IF ContentOf(FormatOf(p), after.allBlocks).threw
             THEN [returned |-> FALSE, threw |-> TRUE, result |-> NoResult,
                   locals |-> after, request |-> <<>>]
             ELSE [returned |-> TRUE, threw |-> FALSE,
                   result |-> ContentReturned(ContentOf(FormatOf(p), after.allBlocks).value,
                                              FormatOf(p), Len(after.allBlocks)),
                   locals |-> after, request |-> <<>>]

\* the rest of a loop iteration once the client has answered, and what
\* follows it: the return of a failure, the next fetch, or the conversion and
\* the return, or the exception of the conversion
getPageContentFetched(p, l, response) ==
    IF ~response.success \/ ~response.hasData
    THEN [returned |-> TRUE, threw |-> FALSE,
          result |-> ContentFailure(ErrorOr(response, "Failed to get page content")),
          locals |-> l, request |-> <<>>]
    ELSE LET after == [l EXCEPT !.allBlocks = @ \o response.results,
                                !.hasMore = response.has_more,
                                !.cursor = response.next_cursor]
         IN  IF after.hasMore
             THEN [returned |-> FALSE, threw |-> FALSE, result |-> NoResult,
                   locals |-> after,
                   request |-> <<GetRequest(ContentEndpoint(extractNotionId(p.page_id),
                                                            after.cursor))>>]
             ELSE IF ContentOf(FormatOf(p), after.allBlocks).threw
             THEN [returned |-> FALSE, threw |-> TRUE, result |-> NoResult,
                   locals |-> after, request |-> <<>>]
             ELSE [returned |-> TRUE, threw |-> FALSE,
                   result |-> ContentReturned(ContentOf(FormatOf(p), after.allBlocks).value,
                                              FormatOf(p), Len(after.allBlocks)),
                   locals |-> after, request |-> <<>>]

-----------------------------------------------------------------------------
(* updateBlock *)

\* `/blocks/${blockId}`
BlockEndpoint(blockId) == <<"/", "b", "l", "o", "c", "k", "s", "/">> \o blockId

\* the results of updateBlock
NoBlockData == [id |-> "", type |-> "", last_edited_time |-> ""]
BlockFailure(message) ==
    [success |-> FALSE, error |-> message, hasBlock |-> FALSE, block |-> NoBlockData]
BlockUpdated(data) ==
    [success |-> TRUE, error |-> "", hasBlock |-> TRUE,
     block |-> [id |-> data.id, type |-> data.type, last_edited_time |-> data.last_edited_time]]

\* the types of the if ... else if chain
CopiedTypes ==
    {"paragraph", "heading_1", "heading_2", "heading_3", "bulleted_list_item",
     "numbered_list_item", "to_do", "quote", "code"}

\* { rich_text: [{ type: 'text', text: { content } }] }
RawPayload(content) == Payload(RichText(<<PlainRun(content)>>), FALSE, <<>>)

\* UpdateBody with the last branch writing the paragraph key
UpdateBodyAsParagraph(blockType, newBlock, content) ==
    IF blockType \in CopiedTypes /\ newBlock.type = blockType
    THEN [key \in {blockType} |-> newBlock.payload]
    ELSE [key \in {"paragraph"} |-> RawPayload(content)]

\* updateBody: an object with the one key blockType
UpdateBody(blockType, newBlock, content) ==
    IF blockType \in CopiedTypes /\ newBlock.type = blockType
    THEN [key \in {blockType} |-> newBlock.payload]
    ELSE [key \in {blockType} |-> RawPayload(content)]

\* updateBlock up to its first await
updateBlockStart(p) ==
    [request |-> <<GetRequest(BlockEndpoint(extractNotionId(p.block_id)))>>]

\* updateBlock between its two awaits
updateBlockGot(p, getResponse) ==
    LET newBlocks == markdownToBlocks(p.content)
    IN  IF ~getResponse.success \/ ~getResponse.hasData
        THEN [returned |-> TRUE,
              result |-> BlockFailure(ErrorOr(getResponse, "Failed to get block for update")),
              blockType |-> "", request |-> <<>>]
        ELSE IF Len(newBlocks) = 0
        THEN [returned |-> TRUE, result |-> BlockFailure("Invalid content provided"),
              blockType |-> getResponse.data.type, request |-> <<>>]
        ELSE [returned |-> FALSE, result |-> NoResult,
              blockType |-> getResponse.data.type,
              request |-> <<PatchRequest(BlockEndpoint(extractNotionId(p.block_id)),
                                         UpdateBody(getResponse.data.type, newBlocks[1],
                                                    p.content))>>]

\* updateBlock after its second await
updateBlockEnd(response) ==
    IF ~response.success \/ ~response.hasData
    THEN BlockFailure(ErrorOr(response, "Failed to update block"))
    ELSE BlockUpdated(response.data)

-----------------------------------------------------------------------------
(* The calls of the thirteen tools on a client that answers anything *)

Operations == SingleRequestOperations \cup {"getPageContent", "appendBlocks", "updateBlock"}

\* params.format: absent, the three formats
Formats == {"undefined", "markdown", "blocks", "plain_text"}

\* params.page_size: below, inside and above the range
PageSizes == {0, 7, 500}

ParamsOf(op) ==
    CASE op = "search" -> [query : {<<"a">>}]
      [] op \in {"getPage", "updatePage"} -> [page_id : ToolIds]
      [] op = "createPage" -> [parent_id : ToolIds]
      [] op \in {"getDatabase", "queryDatabase"} -> [database_id : ToolIds]
      [] op = "createDatabase" -> [parent_page_id : ToolIds]
      [] op = "listUsers" -> [page_size : PageSizes]
      [] op = "getUser" -> [user_id : ToolIds]
      [] op = "deleteBlock" -> [block_id : ToolIds]
      [] op = "getPageContent" -> [page_id : ToolIds, format : Formats]
      [] op = "appendBlocks" -> [parent_id : ToolIds, content : ToolContents]
      [] op = "updateBlock" -> [block_id : ToolIds, content : ToolContents]

\* a response without data: with a message, with an empty one, with none
FailureShapes == {[hasError |-> h, error |-> e] : h \in BOOLEAN, e \in {"", "Not found"}}

\* what the client may answer a tool that makes one request
SingleResponses ==
    {[success |-> TRUE, hasData |-> TRUE, data |-> <<"d">>, hasError |-> FALSE, error |-> ""],
     [success |-> TRUE, hasData |-> FALSE, data |-> <<>>, hasError |-> FALSE, error |-> ""]}
    \cup {[success |-> FALSE, hasData |-> FALSE, data |-> <<>>,
           hasError |-> f.hasError, error |-> f.error] : f \in FailureShapes}

\* the cursor that names page k
CursorOf(k) == <<"c">> \o Decimal(k)

\* the blocks of one page of children: well-formed ones, and a page with a
\* block without payload and one whose rich_text is no array (NotionBlock
\* types the payload as unknown)
PageResults ==
    {<<TextBlock("paragraph", <<"a">>)>>,
     <<TextBlock("heading_1", <<"b">>), TextBlock("paragraph", <<"c">>)>>,
     <<Block("heading_1", PayloadNull),
       Block("paragraph", Payload(RichTextNotArray, FALSE, <<>>))>>}

\* data.next_cursor: null, or one of two cursors, whatever has_more is and
\* whatever was answered before (PaginatedResponse: string | null)
Cursors == {<<>>, CursorOf(2), CursorOf(3)}

\* what the client may answer a fetch of children
PageResponses ==
    {[success |-> TRUE, hasData |-> TRUE, results |-> r, has_more |-> h,
      next_cursor |-> c, hasError |-> FALSE, error |-> ""] :
        r \in PageResults, h \in BOOLEAN, c \in Cursors}
    \cup {[success |-> TRUE, hasData |-> FALSE, results |-> <<>>, has_more |-> FALSE,
           next_cursor |-> <<>>, hasError |-> FALSE, error |-> ""]}
    \cup {[success |-> FALSE, hasData |-> FALSE, results |-> <<>>, has_more |-> FALSE,
           next_cursor |-> <<>>, hasError |-> f.hasError, error |-> f.error] :
             f \in FailureShapes}

\* currentBlock.type: four of the copied types and two others
CurrentTypes == {"paragraph", "heading_1", "to_do", "code", "divider", "callout"}

\* what the client may answer the GET and the PATCH of a block
BlockResponses ==
    {[success |-> TRUE, hasData |-> TRUE,
      data |-> [id |-> "b1", type |-> t, last_edited_time |-> "t1"],
      hasError |-> FALSE, error |-> ""] : t \in CurrentTypes}
    \cup {[success |-> TRUE, hasData |-> FALSE, data |-> NoBlockData,
           hasError |-> FALSE, error |-> ""]}
    \cup {[success |-> FALSE, hasData |-> FALSE, data |-> NoBlockData,
           hasError |-> f.hasError, error |-> f.error] : f \in FailureShapes}

InitOperations ==
    /\ tool \in Operations
    /\ params \in ParamsOf(tool)
    /\ requests = <<>>
    /\ responses = <<>>
    /\ toolResult = NoResult
    /\ locals = NoLocals
    /\ toolPc = "call"
    /\ ScanIdle /\ ConvIdle /\ ClientIdle /\ PureIdle /\ IdIdle

\* a tool that makes one request runs to its await
OperationCall(op) ==
    /\ tool = op /\ toolPc = "call"
    /\ requests' = <<Operation(op, params).request>>
    /\ toolPc' = "awaiting"
    /\ UNCHANGED <<params, toolResult, tool, locals, responses>>
    /\ UNCHANGED <<scanVars, convVars, clientVars, pureVars, idVars>>

\* the client answers and the tool returns
OperationReturn(op) ==
    /\ tool = op /\ toolPc = "awaiting"
    /\ \E response \in SingleResponses :
          /\ responses' = Append(responses, response)
          /\ toolResult' = OperationEnd(op, params, response)
    /\ toolPc' = "returned"
    /\ UNCHANGED <<params, requests, tool, locals>>
    /\ UNCHANGED <<scanVars, convVars, clientVars, pureVars, idVars>>

\* getPageContent runs to its first await
GetPageContentCall ==
    /\ tool = "getPageContent" /\ toolPc = "call"
    /\ \E step \in {getPageContentStart(params)} :
          requests' = step.request /\ locals' = step.locals
    /\ toolPc' = "awaiting"
    /\ UNCHANGED <<params, toolResult, tool, responses>>
    /\ UNCHANGED <<scanVars, convVars, clientVars, pureVars, idVars>>

\* the client answers a fetch: getPageContent returns, fetches again, or
\* ends with the exception of the renderer; the model follows a call for
\* MaxPages answers
GetPageContentFetched ==
    /\ tool = "getPageContent" /\ toolPc = "awaiting"
    /\ Len(responses) < MaxPages
    /\ \E response \in PageResponses :
          \E step \in {getPageContentFetched(params, locals, response)} :
              /\ responses' = Append(responses, response)
              /\ requests' = requests \o step.request
              /\ locals' = step.locals
              /\ toolResult' = step.result
              /\ toolPc' = IF step.returned THEN "returned"
                           ELSE IF step.threw THEN "threw" ELSE "awaiting"
    /\ UNCHANGED <<params, tool>>
    /\ UNCHANGED <<scanVars, convVars, clientVars, pureVars, idVars>>

\* updateBlock runs to its first await
UpdateBlockCall ==
    /\ tool = "updateBlock" /\ toolPc = "call"
    /\ requests' = updateBlockStart(params).request
    /\ toolPc' = "awaitingGet"
    /\ UNCHANGED <<params, toolResult, tool, locals, responses>>
    /\ UNCHANGED <<scanVars, convVars, clientVars, pureVars, idVars>>

\* the client answers the GET: updateBlock returns or runs to its PATCH
UpdateBlockGot ==
    /\ tool = "updateBlock" /\ toolPc = "awaitingGet"
    /\ \E getResponse \in BlockResponses :
          \E step \in {updateBlockGot(params, getResponse)} :
              /\ responses' = Append(responses, getResponse)
              /\ requests' = requests \o step.request
              /\ locals' = [locals EXCEPT !.blockType = step.blockType]
              /\ toolResult' = step.result
              /\ toolPc' = IF step.returned THEN "returned" ELSE "awaitingPatch"
    /\ UNCHANGED <<params, tool>>
    /\ UNCHANGED <<scanVars, convVars, clientVars, pureVars, idVars>>

\* the client answers the PATCH and updateBlock returns
UpdateBlockReturn ==
    /\ tool = "updateBlock" /\ toolPc = "awaitingPatch"
    /\ \E response \in BlockResponses :
          /\ responses' = Append(responses, response)
          /\ toolResult' = updateBlockEnd(response)
    /\ toolPc' = "returned"
    /\ UNCHANGED <<params, requests, tool, locals>>
    /\ UNCHANGED <<scanVars, convVars, clientVars, pureVars, idVars>>

NextOperations ==
    \/ \E op \in SingleRequestOperations : OperationCall(op)
    \/ \E op \in SingleRequestOperations : OperationReturn(op)
    \/ GetPageContentCall \/ GetPageContentFetched
    \/ AppendBlocksCall \/ AppendBlocksReturn
    \/ UpdateBlockCall \/ UpdateBlockGot \/ UpdateBlockReturn

SpecOperations == InitOperations /\ [][NextOperations]_vars

-----------------------------------------------------------------------------
(* Claims about the tool operations, checked under SpecOperations *)

\* the client reported failure
Failing(response) == ~response.success

\* the client's response has an error message
SuppliedError(response) == response.hasError /\ response.error # ""

\* C21: when a client call of any of the thirteen tools reports failure, the
\* tool makes no further call and returns success false with an error that
\* is not empty and is the client's error when the client gave one; a result
\* with success true has no error.
C21_FailuresReported ==
    /\ \A i \in 1..Len(responses) :
          Failing(responses[i]) =>
              /\ i = Len(responses) /\ Len(requests) = i /\ toolPc = "returned"
              /\ ~toolResult.success
              /\ toolResult.error # ""
              /\ SuppliedError(responses[i]) => toolResult.error = responses[i].error
    /\ toolResult.success => toolResult.error = ""

\* C21 witness: the second fetch of getPageContent failed with a message and
\* the tool returned it
C21_Witness ==
    /\ tool = "getPageContent" /\ toolPc = "returned"
    /\ Len(responses) = 2 /\ Failing(responses[2]) /\ SuppliedError(responses[2])
    /\ ~toolResult.success /\ toolResult.error = "Not found"

\* a fetch that gave no page: a failure, or a response without data
FetchFailed(response) == ~response.success \/ ~response.hasData

RECURSIVE FetchedBlocks(_)
\* the blocks of the fetched pages, in fetch order
FetchedBlocks(rs) ==
    IF rs = <<>> THEN <<>> ELSE Head(rs).results \o FetchedBlocks(Tail(rs))

\* the content the claim gives for the fetched blocks
ContentIs(content, format, fetched) ==
    IF format = "blocks" THEN content = fetched
    ELSE IF format = "plain_text" THEN content = blocksToPlainText(fetched).value
    ELSE content = blocksToMarkdown(fetched).value

\* the renderer of the format raises on the fetched blocks
RendererRaises(format, fetched) ==
    /\ format # "blocks"
    /\ IF format = "plain_text" THEN blocksToPlainText(fetched).threw
       ELSE blocksToMarkdown(fetched).threw

\* the call is over: it returned, or the renderer raised
Over == toolPc \in {"returned", "threw"}

\* the cursor request i carries: none for the first, then the next_cursor of
\* the response before it (none when that is null)
CursorSent(i) == IF i = 1 THEN <<>> ELSE responses[i - 1].next_cursor

\* the fetches are made one at a time, each with the cursor of the response
\* before it and only after that response said has_more; the call is over
\* at the first failed fetch or the first response without has_more
FetchedByCursor ==
    /\ \A i \in 1..Len(requests) :
          /\ requests[i] = GetRequest(ContentEndpoint(extractNotionId(params.page_id),
                                                      CursorSent(i)))
          /\ i > 1 => (~FetchFailed(responses[i - 1]) /\ responses[i - 1].has_more)
    /\ Len(responses) <= Len(requests)
    /\ Over <=>
          (responses # <<>> /\ Len(requests) = Len(responses)
              /\ (FetchFailed(responses[Len(responses)])
                  \/ ~responses[Len(responses)].has_more))

\* what the call gives when it is over: no content after a failed fetch,
\* else the content of all fetched blocks and their number
ContentOfAllFetched ==
    toolPc = "returned" =>
        IF FetchFailed(responses[Len(responses)])
        THEN ~toolResult.success /\ ~toolResult.hasContent
        ELSE /\ toolResult.success /\ toolResult.hasContent
             /\ toolResult.block_count = Len(FetchedBlocks(responses))
             /\ toolResult.format =
                   (IF params.format = "undefined" THEN "markdown" ELSE params.format)
             /\ ContentIs(toolResult.content, toolResult.format, FetchedBlocks(responses))

\* C28 as stated: getPageContent fetches one page at a time; the first
\* request has no cursor and each later one has the next_cursor of the
\* response before it, made only after that response said has_more, so no
\* two requests are for the same page; it stops at the first response
\* without has_more with the content of all fetched blocks, once each and in
\* fetch order, and their number, and at the first failed fetch with success
\* false and no content.  Refuted by a response that has has_more and no
\* cursor, or a cursor named before: the same page is requested again.
C28_PagesFetchedInOrder ==
    tool = "getPageContent" =>
        /\ FetchedByCursor
        /\ \A i, j \in 1..Len(requests) :
              i # j => requests[i].endpoint # requests[j].endpoint
        /\ ContentOfAllFetched

\* C28 amended: the fetches are sequential, the first without cursor and
\* each later one with the next_cursor of the response before it, or with
\* none when that response had has_more and a null cursor; two requests are
\* for the same page exactly when they carry the same cursor, so no page is
\* fetched twice as long as every response that has has_more names a cursor
\* not named before, and the first page is fetched again after has_more with
\* no cursor.  The call is over at the first failed fetch (success false,
\* no content) or the first response without has_more: it then returns the
\* content of the blocks of every response, in fetch order, with their
\* number, unless the renderer of the format raises on them, in which case
\* the call raises and returns nothing.
C28_PagesFetchedByCursor ==
    tool = "getPageContent" =>
        /\ FetchedByCursor
        /\ \A i, j \in 1..Len(requests) :
              (requests[i].endpoint = requests[j].endpoint) <=> (CursorSent(i) = CursorSent(j))
        /\ ContentOfAllFetched
        /\ toolPc = "threw" <=>
              (/\ Over /\ ~FetchFailed(responses[Len(responses)])
               /\ RendererRaises(FormatOf(params), FetchedBlocks(responses)))
        /\ toolPc = "threw" => toolResult = NoResult

\* the first page was fetched a second time, after a response with has_more
\* and no cursor
FirstPageFetchedAgain ==
    /\ tool = "getPageContent" /\ toolPc = "returned" /\ toolResult.success
    /\ Len(requests) = 3 /\ requests[2] = requests[1] /\ requests[3] # requests[1]
    /\ toolResult.block_count = 4

\* the renderer raised on the blocks of the second page
RendererRaised ==
    /\ tool = "getPageContent" /\ toolPc = "threw" /\ Len(responses) = 2
    /\ params.format = "markdown"

\* C28 witness: three pages of two, one and two blocks were fetched, each
\* by the cursor of the page before, and the tool returned their five blocks
\* as plain text
C28_Witness ==
    /\ tool = "getPageContent" /\ toolPc = "returned"
    /\ params.format = "plain_text"
    /\ Len(responses) = 3 /\ Len(requests) = 3
    /\ responses[1].next_cursor = CursorOf(2) /\ responses[2].next_cursor = CursorOf(3)
    /\ responses[1].results = <<TextBlock("heading_1", <<"b">>), TextBlock("paragraph", <<"c">>)>>
    /\ responses[2].results = <<TextBlock("paragraph", <<"a">>)>>
    /\ toolResult.success /\ toolResult.block_count = 5
    /\ toolResult.content = <<"b", "\n", "c", "\n", "a", "\n", "b", "\n", "c">>

\* the payload the claim gives the PATCH: the first converted block's when
\* its type is the current one and one of the nine, else one plain run with
\* the raw content
PatchedPayload(currentType, content) ==
    IF /\ markdownToBlocks(content)[1].type = currentType
       /\ currentType \in {"paragraph", "heading_1", "heading_2", "heading_3",
                           "bulleted_list_item", "numbered_list_item", "to_do", "quote",
                           "code"}
    THEN markdownToBlocks(content)[1].payload
    ELSE [kind |-> "object",
          rich_text |-> [kind |-> "array",
                         runs |-> <<[content |-> content, annotations |-> {}, link |-> <<>>]>>],
          checked |-> FALSE, language |-> <<>>]

\* C29: the first request of updateBlock is the GET of the block; a PATCH
\* is the second request, made only after the GET gave the block and only
\* for content that converts to some block, and its body has the one key
\* that is the current block's type; there is no PATCH when the GET failed
\* or the content converts to no block.
C29_GetBeforePatch ==
    tool = "updateBlock" =>
        /\ \A i \in 1..Len(requests) :
              IF i = 1
              THEN requests[1] = GetRequest(BlockEndpoint(extractNotionId(params.block_id)))
              ELSE /\ i = 2 /\ requests[2].method = "PATCH"
                   /\ requests[2].endpoint = BlockEndpoint(extractNotionId(params.block_id))
                   /\ responses # <<>> /\ ~FetchFailed(responses[1])
                   /\ ~ConvertsToNothing(params.content)
                   /\ DOMAIN requests[2].body = {responses[1].data.type}
                   /\ requests[2].body[responses[1].data.type] =
                         PatchedPayload(responses[1].data.type, params.content)
        /\ (responses # <<>> /\ (FetchFailed(responses[1]) \/ ConvertsToNothing(params.content))) =>
              /\ Len(requests) = 1 /\ toolPc = "returned" /\ ~toolResult.success

\* C29 witness: a paragraph updated with a bullet line followed by another
\* line was patched under the key paragraph with one run holding both lines
C29_Witness ==
    /\ tool = "updateBlock" /\ toolPc = "returned" /\ toolResult.success
    /\ Len(requests) = 2 /\ responses[1].data.type = "paragraph"
    /\ markdownToBlocks(params.content)[1].type = "bulleted_list_item"
    /\ Len(markdownToBlocks(params.content)) = 2
    /\ DOMAIN requests[2].body = {"paragraph"}
    /\ requests[2].body["paragraph"].rich_text.runs[1].content = params.content

=============================================================================
